---- MODULE Spec2Model ----
\* krakenv: the annotation grammar parser (internal/parser), the config block
\* parser (internal/config), the type/constraint validator (internal/validator)
\* and the dist-vs-target validation of cmd/krakenv and pkg/envfile.
\*
\* A Go string is modelled as the sequence of its characters (one-character
\* TLA+ strings), so that trimming, prefix tests, searching and splitting are
\* computed the way the strings package computes them.
EXTENDS Integers, Sequences, FiniteSets, TLC


\* ----------------------------------------------------------------------
\* String literals of the source
\* ----------------------------------------------------------------------

\* ''
Empty ==
    <<>>

\* '#prompt:'
PromptPrefix ==
    <<"#", "p", "r", "o", "m", "p", "t", ":">>

\* ' #prompt:'
AnnotationMarker ==
    <<" ", "#", "p", "r", "o", "m", "p", "t", ":">>

\* '#krakenv:'
KrakenvPrefix ==
    <<"#", "k", "r", "a", "k", "e", "n", "v", ":">>

\* 'string'
StrString ==
    <<"s", "t", "r", "i", "n", "g">>

\* 'int'
StrInt ==
    <<"i", "n", "t">>

\* 'numeric'
StrNumeric ==
    <<"n", "u", "m", "e", "r", "i", "c">>

\* 'boolean'
StrBoolean ==
    <<"b", "o", "o", "l", "e", "a", "n">>

\* 'enum'
StrEnum ==
    <<"e", "n", "u", "m">>

\* 'object'
StrObject ==
    <<"o", "b", "j", "e", "c", "t">>

\* 'min'
StrMin ==
    <<"m", "i", "n">>

\* 'max'
StrMax ==
    <<"m", "a", "x">>

\* 'minlen'
StrMinlen ==
    <<"m", "i", "n", "l", "e", "n">>

\* 'maxlen'
StrMaxlen ==
    <<"m", "a", "x", "l", "e", "n">>

\* 'pattern'
StrPattern ==
    <<"p", "a", "t", "t", "e", "r", "n">>

\* 'options'
StrOptions ==
    <<"o", "p", "t", "i", "o", "n", "s">>

\* 'format'
StrFormat ==
    <<"f", "o", "r", "m", "a", "t">>

\* 'encoding'
StrEncoding ==
    <<"e", "n", "c", "o", "d", "i", "n", "g">>

\* 'optional'
StrOptional ==
    <<"o", "p", "t", "i", "o", "n", "a", "l">>

\* 'secret'
StrSecret ==
    <<"s", "e", "c", "r", "e", "t">>

\* 'environments'
StrEnvironments ==
    <<"e", "n", "v", "i", "r", "o", "n", "m", "e", "n", "t", "s">>

\* 'strict'
StrStrict ==
    <<"s", "t", "r", "i", "c", "t">>

\* 'distPath'
StrDistPath ==
    <<"d", "i", "s", "t", "P", "a", "t", "h">>

\* 'true'
StrTrue ==
    <<"t", "r", "u", "e">>

\* '1'
StrOne ==
    <<"1">>

\* 'yes'
StrYes ==
    <<"y", "e", "s">>

\* 'local'
StrLocal ==
    <<"l", "o", "c", "a", "l">>

\* '.env.dist'
DefaultDistPath ==
    <<".", "e", "n", "v", ".", "d", "i", "s", "t">>

\* 'json'
StrJson ==
    <<"j", "s", "o", "n">>

\* 'yaml'
StrYaml ==
    <<"y", "a", "m", "l">>

\* ----------------------------------------------------------------------
\* The strings package, as the source uses it
\* ----------------------------------------------------------------------

\* unicode.IsSpace on the characters a line can hold
IsSpace(c) ==
    c \in {" ", "\t", "\n", "\r", "\f"}

\* Go's s[lo:hi]
Slice(s, lo, hi) ==
    SubSeq(s, lo + 1, hi)

\* Go's s[lo:]
SliceFrom(s, lo) ==
    SubSeq(s, lo + 1, Len(s))

RECURSIVE TrimLeft(_)
TrimLeft(s) ==
    IF s # <<>> /\ IsSpace(Head(s)) THEN TrimLeft(Tail(s)) ELSE s

RECURSIVE TrimRight(_)
TrimRight(s) ==
    IF s # <<>> /\ IsSpace(s[Len(s)]) THEN TrimRight(SubSeq(s, 1, Len(s) - 1)) ELSE s

\* strings.TrimSpace
TrimSpace(s) ==
    TrimRight(TrimLeft(s))

\* strings.HasPrefix
HasPrefix(s, prefix) ==
    Len(s) >= Len(prefix) /\ SubSeq(s, 1, Len(prefix)) = prefix

\* strings.TrimPrefix
TrimPrefix(s, prefix) ==
    IF HasPrefix(s, prefix) THEN SliceFrom(s, Len(prefix)) ELSE s

\* strings.Index: the 0-based position of the first occurrence, -1 if none
Index(s, substr) ==
    LET at == {i \in 0..(Len(s) - Len(substr)) : Slice(s, i, i + Len(substr)) = substr}
    IN  IF at = {} THEN -1 ELSE CHOOSE i \in at : \A j \in at : i <= j

\* strings.Contains
Contains(s, substr) ==
    Index(s, substr) # -1

\* strings.Split(s, sep) for a non-empty sep: always at least one element
RECURSIVE Split(_, _)
Split(s, sep) ==
    LET i == Index(s, sep)
    IN  IF i = -1 THEN <<s>>
        ELSE <<Slice(s, 0, i)>> \o Split(SliceFrom(s, i + Len(sep)), sep)

\* strings.SplitN(s, sep, 2)
SplitN2(s, sep) ==
    LET i == Index(s, sep)
    IN  IF i = -1 THEN <<s>> ELSE <<Slice(s, 0, i), SliceFrom(s, i + Len(sep))>>

\* strings.Join
RECURSIVE Join(_, _)
Join(elems, sep) ==
    IF elems = <<>> THEN <<>>
    ELSE IF Len(elems) = 1 THEN elems[1]
    ELSE elems[1] \o sep \o Join(Tail(elems), sep)

\* strings.ToLower on ASCII letters
ToLowerChar(c) ==
    CASE c = "A" -> "a" [] c = "B" -> "b" [] c = "C" -> "c" [] c = "D" -> "d"
      [] c = "E" -> "e" [] c = "F" -> "f" [] c = "G" -> "g" [] c = "H" -> "h"
      [] c = "I" -> "i" [] c = "J" -> "j" [] c = "K" -> "k" [] c = "L" -> "l"
      [] c = "M" -> "m" [] c = "N" -> "n" [] c = "O" -> "o" [] c = "P" -> "p"
      [] c = "Q" -> "q" [] c = "R" -> "r" [] c = "S" -> "s" [] c = "T" -> "t"
      [] c = "U" -> "u" [] c = "V" -> "v" [] c = "W" -> "w" [] c = "X" -> "x"
      [] c = "Y" -> "y" [] c = "Z" -> "z" [] OTHER -> c

ToLower(s) ==
    [i \in 1..Len(s) |-> ToLowerChar(s[i])]

UpperLetters ==
    {"A", "B", "C", "D", "E", "F", "G", "H", "I", "J", "K", "L", "M",
     "N", "O", "P", "Q", "R", "S", "T", "U", "V", "W", "X", "Y", "Z"}

Digits ==
    {"0", "1", "2", "3", "4", "5", "6", "7", "8", "9"}

\* ----------------------------------------------------------------------
\* internal/parser: types
\* ----------------------------------------------------------------------

\* VariableType (iota)
TypeString ==
    0

TypeInt ==
    1

TypeNumeric ==
    2

TypeBoolean ==
    3

TypeEnum ==
    4

TypeObject ==
    5

VariableTypes ==
    {TypeString, TypeInt, TypeNumeric, TypeBoolean, TypeEnum, TypeObject}

\* VariableType.String
TypeName(t) ==
    CASE t = TypeString -> StrString
      [] t = TypeInt -> StrInt
      [] t = TypeNumeric -> StrNumeric
      [] t = TypeBoolean -> StrBoolean
      [] t = TypeEnum -> StrEnum
      [] t = TypeObject -> StrObject

\* ParseVariableType: an unknown token is a string
ParseVariableType(s) ==
    CASE s = StrString -> TypeString
      [] s = StrInt -> TypeInt
      [] s = StrNumeric -> TypeNumeric
      [] s = StrBoolean -> TypeBoolean
      [] s = StrEnum -> TypeEnum
      [] s = StrObject -> TypeObject
      [] OTHER -> TypeString

\* a nil pointer (*Annotation, *Variable, *KrakenvConfig) and a nil error
Nil ==
    [nil |-> TRUE]

\* fmt.Errorf / errors.New: an error value carrying its message
Errorf(msg) ==
    [msg |-> msg]

\* Annotation.GetConstraint: the value of the first constraint of that name
RECURSIVE GetConstraintIn(_, _)
GetConstraintIn(constraints, name) ==
    IF constraints = <<>> THEN Empty
    ELSE IF Head(constraints).Name = name THEN Head(constraints).Value
    ELSE GetConstraintIn(Tail(constraints), name)

GetConstraint(a, name) ==
    GetConstraintIn(a.Constraints, name)

\* Annotation.HasConstraint
HasConstraint(a, name) ==
    \E i \in 1..Len(a.Constraints) : a.Constraints[i].Name = name

\* EnvFile.GetVariable: the first variable of that name, or nil
RECURSIVE GetVariableIn(_, _)
GetVariableIn(variables, name) ==
    IF variables = <<>> THEN Nil
    ELSE IF Head(variables).Name = name THEN Head(variables)
    ELSE GetVariableIn(Tail(variables), name)

GetVariable(f, name) ==
    GetVariableIn(f.Variables, name)

\* ----------------------------------------------------------------------
\* internal/parser: the tokenizer
\* ----------------------------------------------------------------------

\* variableNamePattern ^[A-Z][A-Z0-9_]*$
MatchVariableName(name) ==
    /\ name # <<>>
    /\ name[1] \in UpperLetters
    /\ \A i \in 2..Len(name) : name[i] \in UpperLetters \cup Digits \cup {"_"}

\* 'variable name must start with uppercase letter and contain only uppercase letters, numbers, and underscores'
ErrInvalidVariableNameMsg ==
    <<"v", "a", "r", "i", "a", "b", "l", "e", " ", "n", "a", "m", "e", " ", "m", "u", "s", "t",
      " ", "s", "t", "a", "r", "t", " ", "w", "i", "t", "h", " ", "u", "p", "p", "e", "r", "c",
      "a", "s", "e", " ", "l", "e", "t", "t", "e", "r", " ", "a", "n", "d", " ", "c", "o", "n",
      "t", "a", "i", "n", " ", "o", "n", "l", "y", " ", "u", "p", "p", "e", "r", "c", "a", "s",
      "e", " ", "l", "e", "t", "t", "e", "r", "s", ",", " ", "n", "u", "m", "b", "e", "r", "s",
      ",", " ", "a", "n", "d", " ", "u", "n", "d", "e", "r", "s", "c", "o", "r", "e", "s">>

ErrInvalidVariableName ==
    Errorf(ErrInvalidVariableNameMsg)

\* parseValue trimming what the quotes enclose
parseValueTrimInner(str) ==
    LET s == TrimSpace(str)
    IN  IF s = Empty THEN Empty
        ELSE IF Len(s) >= 2 /\ s[1] = "\"" /\ s[Len(s)] = "\"" THEN TrimSpace(Slice(s, 1, Len(s) - 1))
        ELSE IF Len(s) >= 2 /\ s[1] = "'" /\ s[Len(s)] = "'" THEN TrimSpace(Slice(s, 1, Len(s) - 1))
        ELSE s

\* parseValue: one pair of matching surrounding quotes is removed
parseValue(str) ==
    LET s == TrimSpace(str)
    IN  IF s = Empty THEN Empty
        ELSE IF Len(s) >= 2 /\ s[1] = "\"" /\ s[Len(s)] = "\"" THEN Slice(s, 1, Len(s) - 1)
        ELSE IF Len(s) >= 2 /\ s[1] = "'" /\ s[Len(s)] = "'" THEN Slice(s, 1, Len(s) - 1)
        ELSE s

TokenizeNothing ==
    [name |-> Empty, value |-> Empty, annotation |-> Empty, err |-> Nil]

\* TokenizeLine: (name, value, annotation, err)
TokenizeLine(rawLine) ==
    LET line == TrimSpace(rawLine)
        eqIdx == Index(line, <<"=">>)
        name == TrimSpace(Slice(line, 0, eqIdx))
        afterEq == SliceFrom(line, eqIdx + 1)
        annotationIdx == Index(afterEq, AnnotationMarker)
        annotation == IF annotationIdx # -1
                      THEN TrimSpace(SliceFrom(afterEq, annotationIdx + 1))
                      ELSE Empty
        rest == IF annotationIdx # -1 THEN Slice(afterEq, 0, annotationIdx) ELSE afterEq
    IN  IF line = Empty THEN TokenizeNothing
        ELSE IF HasPrefix(line, <<"#">>) THEN TokenizeNothing
        ELSE IF eqIdx = -1 THEN TokenizeNothing
        ELSE IF name = Empty THEN TokenizeNothing
        ELSE IF ~MatchVariableName(name)
             THEN [TokenizeNothing EXCEPT !.err = ErrInvalidVariableName]
        ELSE [name |-> name, value |-> parseValue(TrimSpace(rest)),
              annotation |-> annotation, err |-> Nil]

IsComment(line) ==
    HasPrefix(TrimSpace(line), <<"#">>)

IsEmptyLine(line) ==
    TrimSpace(line) = Empty

\* IsAnnotationLine looking for the marker without its leading space
IsAnnotationLineAnywhere(line) ==
    Contains(line, PromptPrefix)

IsAnnotationLine(line) ==
    Contains(line, AnnotationMarker)

ExtractCommentText(rawLine) ==
    LET line == TrimSpace(rawLine)
    IN  IF HasPrefix(line, <<"#">>) THEN TrimSpace(SliceFrom(line, 1)) ELSE Empty

\* ----------------------------------------------------------------------
\* internal/parser: ParseAnnotation
\* ----------------------------------------------------------------------

knownConstraints ==
    {StrMin, StrMax, StrMinlen, StrMaxlen, StrPattern, StrOptions, StrFormat, StrEncoding}

\* 'invalid annotation syntax: must start with #prompt'
ErrMissingPrefixMsg ==
    <<"i", "n", "v", "a", "l", "i", "d", " ", "a", "n", "n", "o", "t", "a", "t", "i", "o", "n",
      " ", "s", "y", "n", "t", "a", "x", ":", " ", "m", "u", "s", "t", " ", "s", "t", "a", "r",
      "t", " ", "w", "i", "t", "h", " ", "#", "p", "r", "o", "m", "p", "t">>

ErrMissingPrefix ==
    Errorf(ErrMissingPrefixMsg)

\* 'invalid annotation syntax: missing | separator'
ErrMissingSeparatorMsg ==
    <<"i", "n", "v", "a", "l", "i", "d", " ", "a", "n", "n", "o", "t", "a", "t", "i", "o", "n",
      " ", "s", "y", "n", "t", "a", "x", ":", " ", "m", "i", "s", "s", "i", "n", "g", " ", "|",
      " ", "s", "e", "p", "a", "r", "a", "t", "o", "r">>

ErrMissingSeparator ==
    Errorf(ErrMissingSeparatorMsg)

\* 'invalid annotation syntax: missing type'
ErrMissingTypeMsg ==
    <<"i", "n", "v", "a", "l", "i", "d", " ", "a", "n", "n", "o", "t", "a", "t", "i", "o", "n",
      " ", "s", "y", "n", "t", "a", "x", ":", " ", "m", "i", "s", "s", "i", "n", "g", " ", "t",
      "y", "p", "e">>

ErrMissingType ==
    Errorf(ErrMissingTypeMsg)

\* the body of the loop over parts[1:], a constraint whose name was already seen
\* being dropped
ParseModifierFirstOnly(ann, rawPart) ==
    LET part == TrimSpace(rawPart)
        colonIdx == Index(part, <<":">>)
        constraintName == TrimSpace(Slice(part, 0, colonIdx))
        constraintValue == TrimSpace(SliceFrom(part, colonIdx + 1))
    IN  IF part = Empty THEN ann
        ELSE IF part = StrOptional THEN [ann EXCEPT !.IsOptional = TRUE]
        ELSE IF part = StrSecret THEN [ann EXCEPT !.IsSecret = TRUE]
        ELSE IF colonIdx = -1 THEN ann
        ELSE IF constraintName \notin knownConstraints THEN ann
        ELSE IF \E i \in 1..Len(ann.Constraints) : ann.Constraints[i].Name = constraintName
             THEN ann
        ELSE [ann EXCEPT !.Constraints =
                 Append(@, [Name |-> constraintName, Value |-> constraintValue])]

\* the body of the loop over parts[1:]
ParseModifier(ann, rawPart) ==
    LET part == TrimSpace(rawPart)
        colonIdx == Index(part, <<":">>)
        constraintName == TrimSpace(Slice(part, 0, colonIdx))
        constraintValue == TrimSpace(SliceFrom(part, colonIdx + 1))
    IN  IF part = Empty THEN ann
        ELSE IF part = StrOptional THEN [ann EXCEPT !.IsOptional = TRUE]
        ELSE IF part = StrSecret THEN [ann EXCEPT !.IsSecret = TRUE]
        ELSE IF colonIdx = -1 THEN ann
        ELSE IF constraintName \notin knownConstraints THEN ann
        ELSE [ann EXCEPT !.Constraints =
                 Append(@, [Name |-> constraintName, Value |-> constraintValue])]

RECURSIVE ParseModifiers(_, _)
ParseModifiers(ann, parts) ==
    IF parts = <<>> THEN ann
    ELSE ParseModifiers(ParseModifier(ann, Head(parts)), Tail(parts))

\* the annotation left as parsed, an enum without options included
EnumFallbackNone(ann) ==
    ann

\* FR-042: an enum whose options are empty becomes a string
EnumFallback(ann) ==
    IF ann.Type = TypeEnum /\ GetConstraint(ann, StrOptions) = Empty
    THEN [ann EXCEPT !.Type = TypeString]
    ELSE ann

\* the test that the type is present, made on the trimmed first element
TypeMissingTrimmed(parts) ==
    Len(parts) = 0 \/ TrimSpace(parts[1]) = Empty

\* the test that the type is present
TypeMissing(parts) ==
    Len(parts) = 0 \/ parts[1] = Empty

\* ParseAnnotation: (ann, err)
ParseAnnotation(str) ==
    LET s == TrimSpace(str)
        content == TrimPrefix(s, PromptPrefix)
        pipeIdx == Index(content, <<"|">>)
        rest == SliceFrom(content, pipeIdx + 1)
        parts == Split(rest, <<";">>)
        ann0 == [PromptText |-> TrimSpace(Slice(content, 0, pipeIdx)),
                 Type |-> ParseVariableType(TrimSpace(parts[1])),
                 Constraints |-> <<>>, IsOptional |-> FALSE, IsSecret |-> FALSE]
    IN  IF ~HasPrefix(s, PromptPrefix) THEN [ann |-> Nil, err |-> ErrMissingPrefix]
        ELSE IF pipeIdx = -1 THEN [ann |-> Nil, err |-> ErrMissingSeparator]
        ELSE IF TypeMissing(parts) THEN [ann |-> Nil, err |-> ErrMissingType]
        ELSE [ann |-> EnumFallback(ParseModifiers(ann0, Tail(parts))), err |-> Nil]

\* FormatAnnotation
FormatAnnotation(a) ==
    LET parts == <<TypeName(a.Type)>>
                 \o [i \in 1..Len(a.Constraints) |->
                        a.Constraints[i].Name \o <<":">> \o a.Constraints[i].Value]
                 \o (IF a.IsOptional THEN <<StrOptional>> ELSE <<>>)
                 \o (IF a.IsSecret THEN <<StrSecret>> ELSE <<>>)
    IN  PromptPrefix \o a.PromptText \o <<"|">> \o Join(parts, <<";">>)

\* FormatVariable
FormatVariable(v, includeAnnotation) ==
    LET line == v.Name \o <<"=">> \o v.Value
    IN  IF includeAnnotation /\ v.Annotation # Nil
        THEN line \o <<" ">> \o FormatAnnotation(v.Annotation)
        ELSE line

\* ----------------------------------------------------------------------
\* internal/config
\* ----------------------------------------------------------------------

DefaultConfig ==
    [Environments |-> <<StrLocal>>, Strict |-> FALSE, DistPath |-> DefaultDistPath]

\* ParseConfigLine: (key, value), both empty when the line carries none
ParseConfigLine(rawLine) ==
    LET line == TrimSpace(rawLine)
        content == TrimPrefix(line, KrakenvPrefix)
        parts == SplitN2(content, <<"=">>)
    IN  IF ~HasPrefix(line, KrakenvPrefix) THEN [key |-> Empty, value |-> Empty]
        ELSE IF Len(parts) # 2 THEN [key |-> Empty, value |-> Empty]
        ELSE [key |-> TrimSpace(parts[1]), value |-> TrimSpace(parts[2])]

IsConfigLine(line) ==
    HasPrefix(TrimSpace(line), KrakenvPrefix)

\* the environments case: trimmed, empty elements dropped
RECURSIVE KeepEnvironments(_)
KeepEnvironments(envs) ==
    IF envs = <<>> THEN <<>>
    ELSE IF TrimSpace(Head(envs)) # Empty
         THEN <<TrimSpace(Head(envs))>> \o KeepEnvironments(Tail(envs))
    ELSE KeepEnvironments(Tail(envs))

\* the body of ParseConfig's loop, distPath overwritten by an empty value too
ApplyConfigLineAnyDistPath(config, line) ==
    LET kv == ParseConfigLine(line)
    IN  IF kv.key = Empty THEN config
        ELSE IF kv.key = StrEnvironments
             THEN [config EXCEPT !.Environments = KeepEnvironments(Split(kv.value, <<",">>))]
        ELSE IF kv.key = StrStrict
             THEN [config EXCEPT !.Strict = (kv.value = StrTrue \/ kv.value = StrOne
                                             \/ kv.value = StrYes)]
        ELSE IF kv.key = StrDistPath THEN [config EXCEPT !.DistPath = kv.value]
        ELSE config

\* the body of ParseConfig's loop
ApplyConfigLine(config, line) ==
    LET kv == ParseConfigLine(line)
    IN  IF kv.key = Empty THEN config
        ELSE IF kv.key = StrEnvironments
             THEN [config EXCEPT !.Environments = KeepEnvironments(Split(kv.value, <<",">>))]
        ELSE IF kv.key = StrStrict
             THEN [config EXCEPT !.Strict = (kv.value = StrTrue \/ kv.value = StrOne
                                             \/ kv.value = StrYes)]
        ELSE IF kv.key = StrDistPath
             THEN (IF kv.value # Empty THEN [config EXCEPT !.DistPath = kv.value] ELSE config)
        ELSE config

RECURSIVE ParseConfigFrom(_, _)
ParseConfigFrom(config, cfgLines) ==
    IF cfgLines = <<>> THEN config
    ELSE ParseConfigFrom(ApplyConfigLine(config, Head(cfgLines)), Tail(cfgLines))

ParseConfig(cfgLines) ==
    ParseConfigFrom(DefaultConfig, cfgLines)

FormatConfigLine(key, value) ==
    KrakenvPrefix \o key \o <<"=">> \o value

FormatConfig(config) ==
    (IF Len(config.Environments) > 0
     THEN <<FormatConfigLine(StrEnvironments, Join(config.Environments, <<",">>))>>
     ELSE <<>>)
    \o (IF config.Strict THEN <<FormatConfigLine(StrStrict, StrTrue)>> ELSE <<>>)

\* ----------------------------------------------------------------------
\* internal/parser: parseLines
\* ----------------------------------------------------------------------

\* the locals of parseLines before its loop
NewParse ==
    [envFile |-> [Variables |-> <<>>, Comments |-> <<>>, Config |-> Nil],
     configLines |-> <<>>,
     varPositions |-> <<>>]

\* the config branch of the loop
CollectConfigLine(st, line) ==
    [st EXCEPT !.configLines = Append(@, line)]

\* the standalone comment branch: an empty text is not stored
CollectComment(st, line, lineNumber) ==
    LET text == ExtractCommentText(line)
    IN  IF text # Empty
        THEN [st EXCEPT !.envFile.Comments = Append(@, [Text |-> text, LineNumber |-> lineNumber])]
        ELSE st

\* the annotation of a variable line: nil when absent or when it fails to parse
AnnotationOf(annotationStr) ==
    IF annotationStr # Empty
    THEN (IF ParseAnnotation(annotationStr).err # Nil THEN Nil
          ELSE ParseAnnotation(annotationStr).ann)
    ELSE Nil

\* the Variable built from a tokenized line
NewVariable(tok, line, lineNumber) ==
    [Name |-> tok.name,
     Value |-> TrimSpace(tok.value),
     LineNumber |-> lineNumber,
     IsSet |-> (tok.value # Empty \/ Contains(line, <<"=">>)),
     Annotation |-> AnnotationOf(tok.annotation)]

\* StoreVariable without the duplicate test: every occurrence is appended
StoreVariableAlwaysAppend(st, variable) ==
    [st EXCEPT !.varPositions = @ @@ (variable.Name :> Len(st.envFile.Variables)),
               !.envFile.Variables = Append(@, variable)]

\* duplicates: the last occurrence replaces the first in place
StoreVariable(st, variable) ==
    IF variable.Name \in DOMAIN st.varPositions
    THEN [st EXCEPT !.envFile.Variables[st.varPositions[variable.Name] + 1] = variable]
    ELSE [st EXCEPT !.varPositions = @ @@ (variable.Name :> Len(st.envFile.Variables)),
                    !.envFile.Variables = Append(@, variable)]

\* what the loop does with a tokenizer error
SkipInvalidLine(st) ==
    st

\* CollectVariable treating an annotation that fails to parse like a tokenizer
\* error: the line is skipped
CollectVariableDropBadAnnotation(st, line, lineNumber) ==
    LET tok == TokenizeLine(line)
    IN  IF tok.err # Nil THEN SkipInvalidLine(st)
        ELSE IF tok.name = Empty THEN st
        ELSE IF tok.annotation # Empty /\ ParseAnnotation(tok.annotation).err # Nil THEN st
        ELSE StoreVariable(st, NewVariable(tok, line, lineNumber))

\* the variable branch of the loop
CollectVariable(st, line, lineNumber) ==
    LET tok == TokenizeLine(line)
    IN  IF tok.err # Nil THEN SkipInvalidLine(st)
        ELSE IF tok.name = Empty THEN st
        ELSE StoreVariable(st, NewVariable(tok, line, lineNumber))

\* which branch of the loop takes the line
LineBranch(line) ==
    IF IsConfigLine(line) THEN "config"
    ELSE IF IsComment(line) /\ ~IsAnnotationLine(line) THEN "comment"
    ELSE IF IsEmptyLine(line) THEN "empty"
    ELSE "variable"

\* one iteration of the loop
ParseLine(st, line, lineNumber) ==
    CASE LineBranch(line) = "config" -> CollectConfigLine(st, line)
      [] LineBranch(line) = "comment" -> CollectComment(st, line, lineNumber)
      [] LineBranch(line) = "empty" -> st
      [] LineBranch(line) = "variable" -> CollectVariable(st, line, lineNumber)

\* the config block, parsed only when a config line carries a key
ParseConfigBlockIfKeyed(st) ==
    IF \E i \in 1..Len(st.configLines) : ParseConfigLine(st.configLines[i]).key # Empty
    THEN [st.envFile EXCEPT !.Config = ParseConfig(st.configLines)]
    ELSE st.envFile

\* the config block, parsed after the loop
ParseConfigBlock(st) ==
    IF Len(st.configLines) > 0
    THEN [st.envFile EXCEPT !.Config = ParseConfig(st.configLines)]
    ELSE st.envFile

RECURSIVE ParseLoop(_, _, _)
ParseLoop(st, inputLines, lineNum) ==
    IF lineNum >= Len(inputLines) THEN st
    ELSE ParseLoop(ParseLine(st, inputLines[lineNum + 1], lineNum + 1), inputLines, lineNum + 1)

\* parseLines: (envFile, err); the error is always nil
parseLines(inputLines) ==
    [envFile |-> ParseConfigBlock(ParseLoop(NewParse, inputLines, 0)), err |-> Nil]

\* the text of a document written back with its annotations: the config block,
\* then one line per variable
Serialize(f) ==
    (IF f.Config # Nil THEN FormatConfig(f.Config) ELSE <<>>)
    \o [i \in 1..Len(f.Variables) |-> FormatVariable(f.Variables[i], TRUE)]

\* ----------------------------------------------------------------------
\* internal/validator: the messages of the validation errors
\* ----------------------------------------------------------------------

\* 'value is required'
MsgValueRequired ==
    <<"v", "a", "l", "u", "e", " ", "i", "s", " ", "r", "e", "q", "u", "i", "r", "e", "d">>

\* 'expected integer, got '
MsgExpectedInteger ==
    <<"e", "x", "p", "e", "c", "t", "e", "d", " ", "i", "n", "t", "e", "g", "e", "r", ",", " ",
      "g", "o", "t", " ">>

\* 'expected numeric, got '
MsgExpectedNumeric ==
    <<"e", "x", "p", "e", "c", "t", "e", "d", " ", "n", "u", "m", "e", "r", "i", "c", ",", " ",
      "g", "o", "t", " ">>

\* 'value '
MsgValue ==
    <<"v", "a", "l", "u", "e", " ">>

\* ' is below minimum '
MsgIsBelowMinimum ==
    <<" ", "i", "s", " ", "b", "e", "l", "o", "w", " ", "m", "i", "n", "i", "m", "u", "m", " ">>

\* ' exceeds maximum '
MsgExceedsMaximum ==
    <<" ", "e", "x", "c", "e", "e", "d", "s", " ", "m", "a", "x", "i", "m", "u", "m", " ">>

\* 'length '
MsgLength ==
    <<"l", "e", "n", "g", "t", "h", " ">>

\* 'invalid pattern: '
MsgInvalidPattern ==
    <<"i", "n", "v", "a", "l", "i", "d", " ", "p", "a", "t", "t", "e", "r", "n", ":", " ">>

\* ' does not match pattern '
MsgDoesNotMatchPattern ==
    <<" ", "d", "o", "e", "s", " ", "n", "o", "t", " ", "m", "a", "t", "c", "h", " ", "p", "a",
      "t", "t", "e", "r", "n", " ">>

\* 'value is required for enum'
MsgRequiredForEnum ==
    <<"v", "a", "l", "u", "e", " ", "i", "s", " ", "r", "e", "q", "u", "i", "r", "e", "d", " ",
      "f", "o", "r", " ", "e", "n", "u", "m">>

\* 'enum has no options defined'
MsgEnumNoOptions ==
    <<"e", "n", "u", "m", " ", "h", "a", "s", " ", "n", "o", " ", "o", "p", "t", "i", "o", "n",
      "s", " ", "d", "e", "f", "i", "n", "e", "d">>

\* ' not in allowed options: '
MsgNotInAllowedOptions ==
    <<" ", "n", "o", "t", " ", "i", "n", " ", "a", "l", "l", "o", "w", "e", "d", " ", "o", "p",
      "t", "i", "o", "n", "s", ":", " ">>

\* 'value is required for boolean'
MsgRequiredForBoolean ==
    <<"v", "a", "l", "u", "e", " ", "i", "s", " ", "r", "e", "q", "u", "i", "r", "e", "d", " ",
      "f", "o", "r", " ", "b", "o", "o", "l", "e", "a", "n">>

\* 'invalid boolean value '
MsgInvalidBoolean ==
    <<"i", "n", "v", "a", "l", "i", "d", " ", "b", "o", "o", "l", "e", "a", "n", " ", "v", "a",
      "l", "u", "e", " ">>

\* ' (use: true/false, yes/no, 1/0, on/off)'
MsgBooleanUse ==
    <<" ", "(", "u", "s", "e", ":", " ", "t", "r", "u", "e", "/", "f", "a", "l", "s", "e", ",",
      " ", "y", "e", "s", "/", "n", "o", ",", " ", "1", "/", "0", ",", " ", "o", "n", "/", "o",
      "f", "f", ")">>

\* 'value is required for object'
MsgRequiredForObject ==
    <<"v", "a", "l", "u", "e", " ", "i", "s", " ", "r", "e", "q", "u", "i", "r", "e", "d", " ",
      "f", "o", "r", " ", "o", "b", "j", "e", "c", "t">>

\* 'invalid JSON: '
MsgInvalidJSON ==
    <<"i", "n", "v", "a", "l", "i", "d", " ", "J", "S", "O", "N", ":", " ">>

\* 'invalid YAML: '
MsgInvalidYAML ==
    <<"i", "n", "v", "a", "l", "i", "d", " ", "Y", "A", "M", "L", ":", " ">>

\* 'unknown object format: '
MsgUnknownObjectFormat ==
    <<"u", "n", "k", "n", "o", "w", "n", " ", "o", "b", "j", "e", "c", "t", " ", "f", "o", "r",
      "m", "a", "t", ":", " ">>

\* 'Required variable has no value'
MsgRequiredVariable ==
    <<"R", "e", "q", "u", "i", "r", "e", "d", " ", "v", "a", "r", "i", "a", "b", "l", "e", " ",
      "h", "a", "s", " ", "n", "o", " ", "v", "a", "l", "u", "e">>

\* 'Variable has no annotation (strict mode)'
MsgNoAnnotationStrict ==
    <<"V", "a", "r", "i", "a", "b", "l", "e", " ", "h", "a", "s", " ", "n", "o", " ", "a", "n",
      "n", "o", "t", "a", "t", "i", "o", "n", " ", "(", "s", "t", "r", "i", "c", "t", " ", "m",
      "o", "d", "e", ")">>

\* 'required'
StrRequired ==
    <<"r", "e", "q", "u", "i", "r", "e", "d">>

\* 'not in allowed'
StrNotInAllowed ==
    <<"n", "o", "t", " ", "i", "n", " ", "a", "l", "l", "o", "w", "e", "d">>

\* 'does not match'
StrDoesNotMatch ==
    <<"d", "o", "e", "s", " ", "n", "o", "t", " ", "m", "a", "t", "c", "h">>

\* '9223372036854775807'
MaxInt64Digits ==
    <<"9", "2", "2", "3", "3", "7", "2", "0", "3", "6", "8", "5", "4", "7", "7", "5", "8", "0",
      "7">>

\* '9223372036854775808'
MinInt64Digits ==
    <<"9", "2", "2", "3", "3", "7", "2", "0", "3", "6", "8", "5", "4", "7", "7", "5", "8", "0",
      "8">>

\* 'error parsing regexp: missing closing ]: '
MsgRegexpMissingBracket ==
    <<"e", "r", "r", "o", "r", " ", "p", "a", "r", "s", "i", "n", "g", " ", "r", "e", "g", "e",
      "x", "p", ":", " ", "m", "i", "s", "s", "i", "n", "g", " ", "c", "l", "o", "s", "i", "n",
      "g", " ", "]", ":", " ">>

\* 'unexpected end of JSON input'
MsgJSONUnexpectedEnd ==
    <<"u", "n", "e", "x", "p", "e", "c", "t", "e", "d", " ", "e", "n", "d", " ", "o", "f", " ",
      "J", "S", "O", "N", " ", "i", "n", "p", "u", "t">>

\* 'invalid character '
MsgJSONInvalidCharacter ==
    <<"i", "n", "v", "a", "l", "i", "d", " ", "c", "h", "a", "r", "a", "c", "t", "e", "r", " ">>

\* ' looking for beginning of value'
MsgJSONLookingForValue ==
    <<" ", "l", "o", "o", "k", "i", "n", "g", " ", "f", "o", "r", " ", "b", "e", "g", "i", "n",
      "n", "i", "n", "g", " ", "o", "f", " ", "v", "a", "l", "u", "e">>

\* 'yaml: did not find expected node content'
MsgYAMLNoNode ==
    <<"y", "a", "m", "l", ":", " ", "d", "i", "d", " ", "n", "o", "t", " ", "f", "i", "n", "d",
      " ", "e", "x", "p", "e", "c", "t", "e", "d", " ", "n", "o", "d", "e", " ", "c", "o", "n",
      "t", "e", "n", "t">>

\* ----------------------------------------------------------------------
\* strconv and fmt, as internal/validator uses them. An int64 is kept as its
\* sign and its decimal digits without leading zeros (zero is the empty
\* digit string), so that the 64-bit range test and the comparisons are exact.
\* ----------------------------------------------------------------------

DigitValue(c) ==
    CASE c = "0" -> 0 [] c = "1" -> 1 [] c = "2" -> 2 [] c = "3" -> 3 [] c = "4" -> 4
      [] c = "5" -> 5 [] c = "6" -> 6 [] c = "7" -> 7 [] c = "8" -> 8 [] c = "9" -> 9

DigitChar(d) ==
    CASE d = 0 -> "0" [] d = 1 -> "1" [] d = 2 -> "2" [] d = 3 -> "3" [] d = 4 -> "4"
      [] d = 5 -> "5" [] d = 6 -> "6" [] d = 7 -> "7" [] d = 8 -> "8" [] d = 9 -> "9"

RECURSIVE StripLeadingZeros(_)
StripLeadingZeros(ds) ==
    IF ds # <<>> /\ Head(ds) = "0" THEN StripLeadingZeros(Tail(ds)) ELSE ds

RECURSIVE StripTrailingZeros(_)
StripTrailingZeros(ds) ==
    IF ds # <<>> /\ ds[Len(ds)] = "0"
    THEN StripTrailingZeros(SubSeq(ds, 1, Len(ds) - 1))
    ELSE ds

\* digit strings of equal length, compared from the most significant digit
RECURSIVE DigitsLess(_, _)
DigitsLess(a, b) ==
    IF a = <<>> \/ b = <<>> THEN b # <<>>
    ELSE IF Head(a) # Head(b) THEN DigitValue(Head(a)) < DigitValue(Head(b))
    ELSE DigitsLess(Tail(a), Tail(b))

\* magnitudes without leading zeros
MagLess(a, b) ==
    Len(a) < Len(b) \/ (Len(a) = Len(b) /\ DigitsLess(a, b))

\* a < b on int64 values
IntLess(a, b) ==
    IF a.neg /\ ~b.neg THEN TRUE
    ELSE IF ~a.neg /\ b.neg THEN FALSE
    ELSE IF a.neg THEN MagLess(b.mag, a.mag)
    ELSE MagLess(a.mag, b.mag)

\* strconv.ParseInt(s, 10, 64): (n, ok); a sign, then digits only, within int64
ParseInt(s) ==
    LET signed == s # <<>> /\ (s[1] = "+" \/ s[1] = "-")
        body == IF signed THEN Tail(s) ELSE s
        mag == StripLeadingZeros(body)
        neg == signed /\ s[1] = "-"
        syntax == body # <<>> /\ \A i \in 1..Len(body) : body[i] \in Digits
        range == IF neg THEN ~MagLess(MinInt64Digits, mag) ELSE ~MagLess(MaxInt64Digits, mag)
    IN  IF syntax /\ range
        THEN [ok |-> TRUE, neg |-> neg /\ mag # <<>>, mag |-> mag]
        ELSE [ok |-> FALSE, neg |-> FALSE, mag |-> <<>>]

\* strconv.Atoi: ParseInt(s, 10, 0) on a 64-bit platform
Atoi(s) ==
    ParseInt(s)

\* the decimal digits of a natural number
RECURSIVE NatDigits(_)
NatDigits(n) ==
    IF n = 0 THEN <<>> ELSE Append(NatDigits(n \div 10), DigitChar(n % 10))

\* len(value) as an int
IntOfLen(s) ==
    [ok |-> TRUE, neg |-> FALSE, mag |-> NatDigits(Len(s))]

\* %d
FormatInt(n) ==
    (IF n.neg THEN <<"-">> ELSE <<>>) \o (IF n.mag = <<>> THEN <<"0">> ELSE n.mag)

\* %q: strconv.Quote on printable ASCII
RECURSIVE EscapeQuoted(_)
EscapeQuoted(s) ==
    IF s = <<>> THEN <<>>
    ELSE (IF Head(s) = "\"" THEN <<"\\", "\"">>
          ELSE IF Head(s) = "\\" THEN <<"\\", "\\">>
          ELSE IF Head(s) = "\t" THEN <<"\\", "t">>
          ELSE <<Head(s)>>) \o EscapeQuoted(Tail(s))

Quote(s) ==
    <<"\"">> \o EscapeQuoted(s) \o <<"\"">>

\* strconv.ParseFloat(s, 64) on plain decimal text: a sign, digits, at most one
\* point, at least one digit. The value is kept exactly, as its integer digits
\* and its fraction digits. Exponents, hexadecimal floats, underscores, inf and
\* nan are not text the model draws; values have few enough digits that the
\* float64 nearest to each is distinct, so comparing the decimals compares the
\* floats.
ParseFloat(s) ==
    LET signed == s # <<>> /\ (s[1] = "+" \/ s[1] = "-")
        body == IF signed THEN Tail(s) ELSE s
        dot == Index(body, <<".">>)
        ip == IF dot = -1 THEN body ELSE Slice(body, 0, dot)
        fp == IF dot = -1 THEN <<>> ELSE SliceFrom(body, dot + 1)
        syntax == /\ \A i \in 1..Len(ip) : ip[i] \in Digits
                  /\ \A i \in 1..Len(fp) : fp[i] \in Digits
                  /\ Len(ip) + Len(fp) > 0
        mag == StripLeadingZeros(ip)
        frac == StripTrailingZeros(fp)
    IN  IF syntax
        THEN [ok |-> TRUE, neg |-> signed /\ s[1] = "-" /\ (mag # <<>> \/ frac # <<>>),
              mag |-> mag, frac |-> frac]
        ELSE [ok |-> FALSE, neg |-> FALSE, mag |-> <<>>, frac |-> <<>>]

\* fraction digit strings, compared digit by digit, a missing digit being 0
RECURSIVE FracLess(_, _)
FracLess(a, b) ==
    IF b = <<>> THEN FALSE
    ELSE IF a = <<>> THEN TRUE
    ELSE IF Head(a) # Head(b) THEN DigitValue(Head(a)) < DigitValue(Head(b))
    ELSE FracLess(Tail(a), Tail(b))

FloatMagLess(a, b) ==
    MagLess(a.mag, b.mag) \/ (a.mag = b.mag /\ FracLess(a.frac, b.frac))

\* a < b on float64 values
FloatLess(a, b) ==
    IF a.neg /\ ~b.neg THEN TRUE
    ELSE IF ~a.neg /\ b.neg THEN FALSE
    ELSE IF a.neg THEN FloatMagLess(b, a)
    ELSE FloatMagLess(a, b)

\* %v of a float64 between 1e-4 and 1e6 in magnitude, or zero: the shortest decimal
FormatFloat(n) ==
    (IF n.neg THEN <<"-">> ELSE <<>>)
    \o (IF n.mag = <<>> THEN <<"0">> ELSE n.mag)
    \o (IF n.frac = <<>> THEN <<>> ELSE <<".">> \o n.frac)

\* ----------------------------------------------------------------------
\* regexp, encoding/json and yaml.v3 on the text the model draws
\* ----------------------------------------------------------------------

HasSuffix(s, suffix) ==
    Len(s) >= Len(suffix) /\ SubSeq(s, Len(s) - Len(suffix) + 1, Len(s)) = suffix

\* regexp.Compile on patterns made of literal characters, an optional leading ^
\* and an optional trailing $: a pattern that opens a class it never closes
\* does not compile
RegexpCompiles(pattern) ==
    ~(Contains(pattern, <<"[">>) /\ ~Contains(pattern, <<"]">>))

RegexpError(pattern) ==
    MsgRegexpMissingBracket \o SliceFrom(pattern, Index(pattern, <<"[">>))

\* Regexp.MatchString on the same patterns
RegexpMatch(pattern, value) ==
    LET atStart == HasPrefix(pattern, <<"^">>)
        p1 == IF atStart THEN Tail(pattern) ELSE pattern
        atEnd == HasSuffix(p1, <<"$">>)
        core == IF atEnd THEN SubSeq(p1, 1, Len(p1) - 1) ELSE p1
    IN  IF atStart /\ atEnd THEN value = core
        ELSE IF atStart THEN HasPrefix(value, core)
        ELSE IF atEnd THEN HasSuffix(value, core)
        ELSE Contains(value, core)

\* the JSON number grammar without an exponent
IsJSONNumber(s) ==
    LET body == IF s # <<>> /\ s[1] = "-" THEN Tail(s) ELSE s
        dot == Index(body, <<".">>)
        ip == IF dot = -1 THEN body ELSE Slice(body, 0, dot)
        fp == IF dot = -1 THEN <<>> ELSE SliceFrom(body, dot + 1)
    IN  /\ ip # <<>>
        /\ \A i \in 1..Len(ip) : ip[i] \in Digits
        /\ (Len(ip) > 1 => ip[1] # "0")
        /\ (dot # -1 => fp # <<>>)
        /\ \A i \in 1..Len(fp) : fp[i] \in Digits

\* json.Unmarshal into interface{} succeeds: on scalars, strings without escapes
\* and the empty object and array
JSONValid(value) ==
    LET s == TrimSpace(value)
    IN  \/ IsJSONNumber(s)
        \/ s \in {<<"t", "r", "u", "e">>, <<"f", "a", "l", "s", "e">>, <<"n", "u", "l", "l">>,
                  <<"{", "}">>, <<"[", "]">>}
        \/ /\ Len(s) >= 2 /\ s[1] = "\"" /\ s[Len(s)] = "\""
           /\ \A i \in 2..(Len(s) - 1) : s[i] \notin {"\"", "\\"}

\* the text of json's error on the same values
JSONError(value) ==
    LET s == TrimSpace(value)
    IN  IF s = <<>> \/ s[1] \in {"{", "[", "\""} THEN MsgJSONUnexpectedEnd
        ELSE MsgJSONInvalidCharacter \o <<"'", s[1], "'">> \o MsgJSONLookingForValue

\* yaml.Unmarshal into interface{} succeeds: plain scalars always, a flow
\* collection or a quoted scalar only when it is closed
YAMLValid(value) ==
    LET s == TrimSpace(value)
    IN  IF s = <<>> THEN TRUE
        ELSE IF s[1] = "{" THEN s[Len(s)] = "}"
        ELSE IF s[1] = "[" THEN s[Len(s)] = "]"
        ELSE IF s[1] = "\"" THEN Len(s) >= 2 /\ s[Len(s)] = "\""
        ELSE IF s[1] = "'" THEN Len(s) >= 2 /\ s[Len(s)] = "'"
        ELSE TRUE

\* ----------------------------------------------------------------------
\* internal/validator: ValidateValue
\* ----------------------------------------------------------------------

\* validateInt with exclusive bounds
validateIntExclusive(value, ann) ==
    LET n == ParseInt(value)
        minStr == GetConstraint(ann, StrMin)
        min == ParseInt(minStr)
        maxStr == GetConstraint(ann, StrMax)
        max == ParseInt(maxStr)
    IN  IF value = Empty THEN Errorf(MsgValueRequired)
        ELSE IF ~n.ok THEN Errorf(MsgExpectedInteger \o Quote(value))
        ELSE IF minStr # Empty /\ min.ok /\ ~IntLess(min, n)
             THEN Errorf(MsgValue \o FormatInt(n) \o MsgIsBelowMinimum \o FormatInt(min))
        ELSE IF maxStr # Empty /\ max.ok /\ ~IntLess(n, max)
             THEN Errorf(MsgValue \o FormatInt(n) \o MsgExceedsMaximum \o FormatInt(max))
        ELSE Nil

validateInt(value, ann) ==
    LET n == ParseInt(value)
        minStr == GetConstraint(ann, StrMin)
        min == ParseInt(minStr)
        maxStr == GetConstraint(ann, StrMax)
        max == ParseInt(maxStr)
    IN  IF value = Empty THEN Errorf(MsgValueRequired)
        ELSE IF ~n.ok THEN Errorf(MsgExpectedInteger \o Quote(value))
        ELSE IF minStr # Empty /\ min.ok /\ IntLess(n, min)
             THEN Errorf(MsgValue \o FormatInt(n) \o MsgIsBelowMinimum \o FormatInt(min))
        ELSE IF maxStr # Empty /\ max.ok /\ IntLess(max, n)
             THEN Errorf(MsgValue \o FormatInt(n) \o MsgExceedsMaximum \o FormatInt(max))
        ELSE Nil

validateNumeric(value, ann) ==
    LET n == ParseFloat(value)
        minStr == GetConstraint(ann, StrMin)
        min == ParseFloat(minStr)
        maxStr == GetConstraint(ann, StrMax)
        max == ParseFloat(maxStr)
    IN  IF value = Empty THEN Errorf(MsgValueRequired)
        ELSE IF ~n.ok THEN Errorf(MsgExpectedNumeric \o Quote(value))
        ELSE IF minStr # Empty /\ min.ok /\ FloatLess(n, min)
             THEN Errorf(MsgValue \o FormatFloat(n) \o MsgIsBelowMinimum \o FormatFloat(min))
        ELSE IF maxStr # Empty /\ max.ok /\ FloatLess(max, n)
             THEN Errorf(MsgValue \o FormatFloat(n) \o MsgExceedsMaximum \o FormatFloat(max))
        ELSE Nil

validateString(value, ann) ==
    LET minlenStr == GetConstraint(ann, StrMinlen)
        minlen == Atoi(minlenStr)
        maxlenStr == GetConstraint(ann, StrMaxlen)
        maxlen == Atoi(maxlenStr)
        pattern == GetConstraint(ann, StrPattern)
        length == IntOfLen(value)
    IN  IF minlenStr # Empty /\ minlen.ok /\ IntLess(length, minlen)
        THEN Errorf(MsgLength \o FormatInt(length) \o MsgIsBelowMinimum \o FormatInt(minlen))
        ELSE IF maxlenStr # Empty /\ maxlen.ok /\ IntLess(maxlen, length)
             THEN Errorf(MsgLength \o FormatInt(length) \o MsgExceedsMaximum
                         \o FormatInt(maxlen))
        ELSE IF pattern # Empty /\ ~RegexpCompiles(pattern)
             THEN Errorf(MsgInvalidPattern \o RegexpError(pattern))
        ELSE IF pattern # Empty /\ ~RegexpMatch(pattern, value)
             THEN Errorf(MsgValue \o Quote(value) \o MsgDoesNotMatchPattern \o pattern)
        ELSE Nil

validateEnum(value, ann) ==
    LET optionsStr == GetConstraint(ann, StrOptions)
        options == Split(optionsStr, <<",">>)
    IN  IF value = Empty THEN Errorf(MsgRequiredForEnum)
        ELSE IF optionsStr = Empty THEN Errorf(MsgEnumNoOptions)
        ELSE IF \E i \in 1..Len(options) : TrimSpace(options[i]) = value THEN Nil
        ELSE Errorf(MsgValue \o Quote(value) \o MsgNotInAllowedOptions \o optionsStr)

validBooleans ==
    {<<"t", "r", "u", "e">>, <<"f", "a", "l", "s", "e">>, <<"y", "e", "s">>, <<"n", "o">>,
     <<"1">>, <<"0">>, <<"o", "n">>, <<"o", "f", "f">>}

validateBoolean(value) ==
    IF value = Empty THEN Errorf(MsgRequiredForBoolean)
    ELSE IF ToLower(value) \notin validBooleans
         THEN Errorf(MsgInvalidBoolean \o Quote(value) \o MsgBooleanUse)
    ELSE Nil

validateObject(value, ann) ==
    LET format == IF GetConstraint(ann, StrFormat) = Empty THEN StrJson
                  ELSE GetConstraint(ann, StrFormat)
    IN  IF value = Empty THEN Errorf(MsgRequiredForObject)
        ELSE IF format = StrJson
             THEN (IF JSONValid(value) THEN Nil ELSE Errorf(MsgInvalidJSON \o JSONError(value)))
        ELSE IF format = StrYaml
             THEN (IF YAMLValid(value) THEN Nil ELSE Errorf(MsgInvalidYAML \o MsgYAMLNoNode))
        ELSE Errorf(MsgUnknownObjectFormat \o format)

\* the switch on the annotation's type
ValidateByType(value, ann) ==
    CASE ann.Type = TypeInt -> validateInt(value, ann)
      [] ann.Type = TypeNumeric -> validateNumeric(value, ann)
      [] ann.Type = TypeString -> validateString(value, ann)
      [] ann.Type = TypeEnum -> validateEnum(value, ann)
      [] ann.Type = TypeBoolean -> validateBoolean(value)
      [] ann.Type = TypeObject -> validateObject(value, ann)
      [] OTHER -> Nil

\* ValidateValue without the shortcut for an empty optional value
ValidateValueNoOptional(value, ann) ==
    IF ann = Nil THEN Nil ELSE ValidateByType(value, ann)

\* ValidateValue: nil, or the error
ValidateValue(value, ann) ==
    IF ann = Nil THEN Nil
    ELSE IF value = Empty /\ ann.IsOptional THEN Nil
    ELSE ValidateByType(value, ann)

\* ----------------------------------------------------------------------
\* internal/validator: errors and results
\* ----------------------------------------------------------------------

\* ErrorType (iota)
ErrorMissingRequired ==
    0

ErrorInvalidType ==
    1

ErrorConstraintViolation ==
    2

ErrorAnnotationSyntax ==
    3

ErrorDuplicateVariable ==
    4

\* getErrorType: the type read off the message
getErrorType(err) ==
    IF Contains(err.msg, StrRequired) THEN ErrorMissingRequired
    ELSE IF Contains(err.msg, StrNotInAllowed) \/ Contains(err.msg, StrDoesNotMatch)
         THEN ErrorConstraintViolation
    ELSE ErrorInvalidType

NewValidationResult ==
    [Errors |-> <<>>, Valid |-> TRUE]

\* AddError keeping the first error only
AddErrorFirstOnly(r, err) ==
    [Errors |-> IF r.Errors = <<>> THEN <<err>> ELSE r.Errors, Valid |-> FALSE]

\* ValidationResult.AddError
AddError(r, err) ==
    [Errors |-> Append(r.Errors, err), Valid |-> FALSE]

NewMissingRequiredError(variable, lineNumber) ==
    [Variable |-> variable, LineNumber |-> lineNumber, Message |-> MsgRequiredVariable,
     Type |-> ErrorMissingRequired]

\* ValidateVariable: nil, or the ValidationError of the variable's own value
ValidateVariable(v) ==
    IF v.Annotation = Nil THEN Nil
    ELSE IF ValidateValue(v.Value, v.Annotation) # Nil
         THEN [Variable |-> v.Name, LineNumber |-> v.LineNumber,
               Message |-> ValidateValue(v.Value, v.Annotation).msg,
               Type |-> getErrorType(ValidateValue(v.Value, v.Annotation))]
    ELSE Nil

\* the body of ValidateEnvFile's loop
ValidateEnvFileStep(result, v) ==
    IF ValidateVariable(v) # Nil THEN AddError(result, ValidateVariable(v)) ELSE result

\* ----------------------------------------------------------------------
\* pkg/envfile ValidateFile and cmd/krakenv validateFile: dist against target
\* ----------------------------------------------------------------------

\* the body of the loop of envfile.ValidateFile. The ValidationError of a
\* rejected value is built without a Type: the field holds ErrorType's zero value.
LibValidateFileStep(result, distVar, target) ==
    LET targetVar == GetVariable(target, distVar.Name)
        err == ValidateValue(targetVar.Value, distVar.Annotation)
    IN  IF distVar.Annotation = Nil THEN result
        ELSE IF targetVar = Nil
             THEN (IF ~distVar.Annotation.IsOptional
                   THEN AddError(result, NewMissingRequiredError(distVar.Name, 0))
                   ELSE result)
        ELSE IF err # Nil
             THEN AddError(result, [Variable |-> distVar.Name,
                                    LineNumber |-> targetVar.LineNumber,
                                    Message |-> err.msg,
                                    Type |-> 0])
        ELSE result

\* the body of the loop of the validate command's validateFile
validateFileStep(result, distVar, target, strict) ==
    LET targetVar == GetVariable(target, distVar.Name)
        err == ValidateValue(targetVar.Value, distVar.Annotation)
    IN  IF targetVar = Nil
        THEN (IF distVar.Annotation # Nil /\ ~distVar.Annotation.IsOptional
              THEN AddError(result, NewMissingRequiredError(distVar.Name, 0))
              ELSE result)
        ELSE IF distVar.Annotation = Nil
             THEN (IF strict
                   THEN AddError(result, [Variable |-> distVar.Name,
                                          LineNumber |-> targetVar.LineNumber,
                                          Message |-> MsgNoAnnotationStrict,
                                          Type |-> ErrorAnnotationSyntax])
                   ELSE result)
        ELSE IF err # Nil
             THEN AddError(result, [Variable |-> distVar.Name,
                                    LineNumber |-> targetVar.LineNumber,
                                    Message |-> err.msg,
                                    Type |-> ErrorInvalidType])
        ELSE result

\* runValidate: the flag, else the distributable's config
StrictMode(flag, dist) ==
    IF ~flag /\ dist.Config # Nil THEN dist.Config.Strict ELSE flag

\* ----------------------------------------------------------------------
\* The inputs: lines of .env files, annotation texts, values, annotations
\* ----------------------------------------------------------------------

\* 'A=1'
LnA1 ==
    <<"A", "=", "1">>

\* 'A=2 #prompt:P|int;min:1'
LnA2Int ==
    <<"A", "=", "2", " ", "#", "p", "r", "o", "m", "p", "t", ":", "P", "|", "i", "n", "t", ";",
      "m", "i", "n", ":", "1">>

\* 'B= #prompt:Q|enum;options:x,y;optional'
LnBEnum ==
    <<"B", "=", " ", "#", "p", "r", "o", "m", "p", "t", ":", "Q", "|", "e", "n", "u", "m", ";",
      "o", "p", "t", "i", "o", "n", "s", ":", "x", ",", "y", ";", "o", "p", "t", "i", "o", "n",
      "a", "l">>

\* 'b=1'
LnLowerName ==
    <<"b", "=", "1">>

\* '# note'
LnComment ==
    <<"#", " ", "n", "o", "t", "e">>

\* '#krakenv:strict=true'
LnStrict ==
    <<"#", "k", "r", "a", "k", "e", "n", "v", ":", "s", "t", "r", "i", "c", "t", "=", "t", "r",
      "u", "e">>

\* '#krakenv:distPath=d'
LnDistPath ==
    <<"#", "k", "r", "a", "k", "e", "n", "v", ":", "d", "i", "s", "t", "P", "a", "t", "h", "=",
      "d">>

\* '  '
LnBlank ==
    <<" ", " ">>

\* '# C=1 #prompt:P|int'
LnCommentedVar ==
    <<"#", " ", "C", "=", "1", " ", "#", "p", "r", "o", "m", "p", "t", ":", "P", "|", "i", "n",
      "t">>

\* '#prompt:P|int'
LnCommentPrompt ==
    <<"#", "p", "r", "o", "m", "p", "t", ":", "P", "|", "i", "n", "t">>

\* 'B=x #prompt:nopipe'
LnNoPipe ==
    <<"B", "=", "x", " ", "#", "p", "r", "o", "m", "p", "t", ":", "n", "o", "p", "i", "p", "e">>

\* 'B=\'"q"\''
LnNested ==
    <<"B", "=", "'", "\"", "q", "\"", "'">>

\* '#'
LnHash ==
    <<"#">>

\* the lines a parsed file is made of
LinePool ==
    {LnA1,
     LnA2Int,
     LnBEnum,
     LnLowerName,
     LnComment,
     LnStrict,
     LnDistPath,
     LnBlank,
     LnCommentedVar,
     LnCommentPrompt,
     LnNoPipe,
     LnNested,
     LnHash}

\* '#prompt:P|'
HeadPlain ==
    <<"#", "p", "r", "o", "m", "p", "t", ":", "P", "|">>

\* ' #prompt: P |'
HeadSpaced ==
    <<" ", "#", "p", "r", "o", "m", "p", "t", ":", " ", "P", " ", "|">>

\* '#prompt:P'
HeadNoPipe ==
    <<"#", "p", "r", "o", "m", "p", "t", ":", "P">>

\* 'prompt:P|'
HeadNoPrefix ==
    <<"p", "r", "o", "m", "p", "t", ":", "P", "|">>

\* the start of an annotation text, up to and including the first |
AnnHeads ==
    {HeadPlain,
     HeadSpaced,
     HeadNoPipe,
     HeadNoPrefix}

\* ''
TokNone ==
    <<>>

\* ' '
TokBlank ==
    <<" ">>

\* 'int'
TokInt ==
    <<"i", "n", "t">>

\* 'enum'
TokEnum ==
    <<"e", "n", "u", "m">>

\* ' string '
TokSpacedString ==
    <<" ", "s", "t", "r", "i", "n", "g", " ">>

\* 'bogus'
TokBogus ==
    <<"b", "o", "g", "u", "s">>

\* 'INT'
TokUpperInt ==
    <<"I", "N", "T">>

\* the first ;-separated element of an annotation text
TypeTokens ==
    {TokNone,
     TokBlank,
     TokInt,
     TokEnum,
     TokSpacedString,
     TokBogus,
     TokUpperInt}

\* 'optional'
ModOptional ==
    <<"o", "p", "t", "i", "o", "n", "a", "l">>

\* 'secret'
ModSecret ==
    <<"s", "e", "c", "r", "e", "t">>

\* 'min:1'
ModMin ==
    <<"m", "i", "n", ":", "1">>

\* ' min : 2 '
ModSpacedMin ==
    <<" ", "m", "i", "n", " ", ":", " ", "2", " ">>

\* 'options:x,y'
ModOptions ==
    <<"o", "p", "t", "i", "o", "n", "s", ":", "x", ",", "y">>

\* 'options:'
ModEmptyOptions ==
    <<"o", "p", "t", "i", "o", "n", "s", ":">>

\* 'bogus:1'
ModBogus ==
    <<"b", "o", "g", "u", "s", ":", "1">>

\* 'flag'
ModFlag ==
    <<"f", "l", "a", "g">>

\* ''
ModNone ==
    <<>>

\* the later ;-separated elements of an annotation text
ModifierPool ==
    {ModOptional,
     ModSecret,
     ModMin,
     ModSpacedMin,
     ModOptions,
     ModEmptyOptions,
     ModBogus,
     ModFlag,
     ModNone}

\* ''
ValEmpty ==
    <<>>

\* '0'
ValZero ==
    <<"0">>

\* '1'
ValOne ==
    <<"1">>

\* '5'
ValFive ==
    <<"5">>

\* '10'
ValTen ==
    <<"1", "0">>

\* '11'
ValEleven ==
    <<"1", "1">>

\* '-1'
ValMinusOne ==
    <<"-", "1">>

\* '+5'
ValPlusFive ==
    <<"+", "5">>

\* '007'
ValPadded ==
    <<"0", "0", "7">>

\* '1.5'
ValFraction ==
    <<"1", ".", "5">>

\* ' 5'
ValSpaced ==
    <<" ", "5">>

\* 'abc'
ValWord ==
    <<"a", "b", "c">>

\* 'x'
ValX ==
    <<"x">>

\* 'TRUE'
ValTrue ==
    <<"T", "R", "U", "E">>

\* '{}'
ValObject ==
    <<"{", "}">>

\* '9223372036854775807'
ValMaxInt64 ==
    <<"9", "2", "2", "3", "3", "7", "2", "0", "3", "6", "8", "5", "4", "7", "7", "5", "8", "0",
      "7">>

\* '9223372036854775808'
ValOverInt64 ==
    <<"9", "2", "2", "3", "3", "7", "2", "0", "3", "6", "8", "5", "4", "7", "7", "5", "8", "0",
      "8">>

\* the values handed to ValidateValue
ValuePool ==
    {ValEmpty,
     ValZero,
     ValOne,
     ValFive,
     ValTen,
     ValEleven,
     ValMinusOne,
     ValPlusFive,
     ValPadded,
     ValFraction,
     ValSpaced,
     ValWord,
     ValX,
     ValTrue,
     ValObject,
     ValMaxInt64,
     ValOverInt64}

\* the constraints an annotation handed to ValidateValue carries
ConstraintPool ==
    {[Name |-> StrMin, Value |-> ValOne],
     [Name |-> StrMin, Value |-> ValWord],
     [Name |-> StrMin, Value |-> ValFive],
     [Name |-> StrMax, Value |-> ValTen],
     [Name |-> StrMax, Value |-> ValFraction],
     [Name |-> StrMinlen, Value |-> <<"2">>],
     [Name |-> StrPattern, Value |-> <<"^", "a">>],
     [Name |-> StrOptions, Value |-> <<"x", ",", " ", "a", "b", "c">>],
     [Name |-> StrFormat, Value |-> StrYaml]}

\* 'A= #prompt:P|int;min:1;max:10'
DistAInt ==
    <<"A", "=", " ", "#", "p", "r", "o", "m", "p", "t", ":", "P", "|", "i", "n", "t", ";", "m",
      "i", "n", ":", "1", ";", "m", "a", "x", ":", "1", "0">>

\* 'A=abc #prompt:P|int'
DistAWord ==
    <<"A", "=", "a", "b", "c", " ", "#", "p", "r", "o", "m", "p", "t", ":", "P", "|", "i", "n",
      "t">>

\* 'B=x #prompt:Q|enum;options:x,y;optional'
DistBEnum ==
    <<"B", "=", "x", " ", "#", "p", "r", "o", "m", "p", "t", ":", "Q", "|", "e", "n", "u", "m",
      ";", "o", "p", "t", "i", "o", "n", "s", ":", "x", ",", "y", ";", "o", "p", "t", "i", "o",
      "n", "a", "l">>

\* 'B= #prompt:Q|string;pattern:^a'
DistBPattern ==
    <<"B", "=", " ", "#", "p", "r", "o", "m", "p", "t", ":", "Q", "|", "s", "t", "r", "i", "n",
      "g", ";", "p", "a", "t", "t", "e", "r", "n", ":", "^", "a">>

\* 'C=1'
DistCPlain ==
    <<"C", "=", "1">>

\* '#krakenv:strict=true'
DistStrict ==
    <<"#", "k", "r", "a", "k", "e", "n", "v", ":", "s", "t", "r", "i", "c", "t", "=", "t", "r",
      "u", "e">>

\* the lines of a distributable
DistLinePool ==
    {DistAInt,
     DistAWord,
     DistBEnum,
     DistBPattern,
     DistCPlain,
     DistStrict}

\* 'A=5'
TgtA5 ==
    <<"A", "=", "5">>

\* 'A='
TgtAEmpty ==
    <<"A", "=">>

\* 'A=abc'
TgtAWord ==
    <<"A", "=", "a", "b", "c">>

\* 'B=z'
TgtBz ==
    <<"B", "=", "z">>

\* 'B=ax'
TgtBax ==
    <<"B", "=", "a", "x">>

\* 'C=1'
TgtC ==
    <<"C", "=", "1">>

\* the lines of a target file
TargetLinePool ==
    {TgtA5,
     TgtAEmpty,
     TgtAWord,
     TgtBz,
     TgtBax,
     TgtC}

\* ----------------------------------------------------------------------
\* State
\* ----------------------------------------------------------------------

VARIABLES
    pc,             \* where the running operation stands
    lines,          \* parseLines: the lines read so far
    envFile,        \* parseLines: the EnvFile under construction
    configLines,    \* parseLines: the config lines collected
    varPositions,   \* parseLines: name -> index in envFile.Variables
    lineKind,       \* parseLines: the branch that took each line read
    parseErr,       \* parseLines: the error returned
    reparsed,       \* the EnvFile parsed from the text written back
    annText,        \* ParseAnnotation: its argument
    annOut,         \* ParseAnnotation: (ann, err)
    vValue,         \* ValidateValue: the value
    vAnn,           \* ValidateValue: the annotation
    vErr,           \* ValidateValue: the error returned
    distFile,       \* validation: the parsed distributable
    targetFile,     \* validation: the parsed target
    entry,          \* validation: the function running
    strict,         \* validation: validateFile's strict parameter
    distIdx,        \* validation: the loop index
    result,         \* validation: the ValidationResult
    tokLine,        \* TokenizeLine: its argument
    tokOut,         \* TokenizeLine: (name, value, annotation, err)
    genDist,        \* generate: the parsed distributable
    genTarget,      \* generate: the parsed target, nil when the file does not exist
    nonInteractive, \* generate: the --non-interactive flag
    keepAnnotations,\* generate: the --keep-annotations flag
    toPrompt,       \* generate: the variables GetVariablesToPrompt returned
    m,              \* generate: the wizard's Model held by the program
    written,        \* generate: the lines written to the target path, nil when none
    genOut,         \* generate: how generateTarget ended
    givenValues,     \* MergeVariables: its argument
    merged,         \* MergeVariables: the variables returned
    vArg,           \* ValidateVariable: its argument
    vOutcome,       \* ValidateVariable: the ValidationError returned
    inspDist,       \* inspect: the parsed distributable
    inspTarget,     \* inspect: the parsed target
    inspResult,     \* inspect: the InspectionResult
    inspFile,       \* inspect: the target file as rewritten, nil while unmodified
    inspOut,        \* inspect: how the command ended
    syncModel              \* inspect: the sync wizard's Model held by the program

parseVars == <<lines, envFile, configLines, varPositions, lineKind, parseErr, reparsed>>
annVars == <<annText, annOut>>
valueVars == <<vValue, vAnn, vErr>>
docVars == <<distFile, targetFile, entry, strict, distIdx, result>>
tokVars == <<tokLine, tokOut>>
genVars == <<genDist, genTarget, nonInteractive, keepAnnotations, toPrompt, m, written, genOut>>
mergeVars == <<givenValues, merged>>
variableVars == <<vArg, vOutcome>>
inspVars == <<inspDist, inspTarget, inspResult, inspFile, inspOut, syncModel>>
laterVars == <<mergeVars, variableVars, inspVars>>
extVars == <<tokVars, genVars, laterVars>>
coreVars == <<parseVars, annVars, valueVars, docVars>>
vars == <<pc, coreVars, extVars>>

MaxLines ==
    3

MaxModifiers ==
    2

MaxConstraints ==
    2

MaxDocLines ==
    2

\* the sequences over S of length at most n
SeqsUpTo(S, n) ==
    UNION {[1..k -> S] : k \in 0..n}

ParseIdle ==
    /\ lines = <<>>
    /\ envFile = NewParse.envFile
    /\ configLines = <<>>
    /\ varPositions = <<>>
    /\ lineKind = <<>>
    /\ parseErr = Nil
    /\ reparsed = Nil

AnnIdle ==
    annText = Empty /\ annOut = Nil

ValueIdle ==
    vValue = Empty /\ vAnn = Nil /\ vErr = Nil

DocIdle ==
    /\ distFile = NewParse.envFile
    /\ targetFile = NewParse.envFile
    /\ entry = "none"
    /\ strict = FALSE
    /\ distIdx = 0
    /\ result = NewValidationResult

TokenIdle ==
    tokLine = Empty /\ tokOut = Nil

GenIdle ==
    /\ genDist = Nil /\ genTarget = Nil /\ nonInteractive = FALSE /\ keepAnnotations = FALSE
    /\ toPrompt = <<>> /\ m = Nil /\ written = Nil /\ genOut = Nil

MergeIdle ==
    givenValues = <<>> /\ merged = <<>>

VariableIdle ==
    vArg = Nil /\ vOutcome = Nil

InspIdle ==
    /\ inspDist = Nil /\ inspTarget = Nil /\ inspResult = Nil
    /\ inspFile = Nil /\ inspOut = Nil /\ syncModel = Nil

LaterIdle ==
    MergeIdle /\ VariableIdle /\ InspIdle

ExtIdle ==
    TokenIdle /\ GenIdle /\ LaterIdle

CoreIdle ==
    ParseIdle /\ AnnIdle /\ ValueIdle /\ DocIdle

\* ----------------------------------------------------------------------
\* parseLines, one loop iteration at a time, then the text written back and
\* parsed again
\* ----------------------------------------------------------------------

InitParse ==
    pc = "loop" /\ CoreIdle /\ ExtIdle

LoopState ==
    [envFile |-> envFile, configLines |-> configLines, varPositions |-> varPositions]

\* one iteration of the loop on the next line, taken by the branch `kind`
ReadLine(line, kind) ==
    /\ pc = "loop"
    /\ Len(lines) < MaxLines
    /\ LineBranch(line) = kind
    /\ lines' = Append(lines, line)
    /\ lineKind' = Append(lineKind, kind)
    /\ LET st == ParseLine(LoopState, line, Len(lines) + 1)
       IN  /\ envFile' = st.envFile
           /\ configLines' = st.configLines
           /\ varPositions' = st.varPositions
    /\ UNCHANGED <<pc, parseErr, reparsed, annVars, valueVars, docVars, extVars>>

ReadConfigLine ==
    \E line \in LinePool : ReadLine(line, "config")

ReadComment ==
    \E line \in LinePool : ReadLine(line, "comment")

ReadEmptyLine ==
    \E line \in LinePool : ReadLine(line, "empty")

ReadVariableLine ==
    \E line \in LinePool : ReadLine(line, "variable")

\* the end of the input: the config block is parsed and parseLines returns
EndOfLines ==
    /\ pc = "loop"
    /\ envFile' = ParseConfigBlock(LoopState)
    /\ parseErr' = parseLines(lines).err
    /\ pc' = "parsed"
    /\ UNCHANGED <<lines, configLines, varPositions, lineKind, reparsed,
                   annVars, valueVars, docVars, extVars>>

\* the document is written back with its annotations and parsed again
Reparse ==
    /\ pc = "parsed"
    /\ reparsed' = parseLines(Serialize(envFile)).envFile
    /\ pc' = "reparsed"
    /\ UNCHANGED <<lines, envFile, configLines, varPositions, lineKind, parseErr,
                   annVars, valueVars, docVars, extVars>>

NextParse ==
    \/ ReadConfigLine
    \/ ReadComment
    \/ ReadEmptyLine
    \/ ReadVariableLine
    \/ EndOfLines
    \/ Reparse

SpecParse ==
    InitParse /\ [][NextParse]_vars

\* ----------------------------------------------------------------------
\* ParseAnnotation on an annotation text
\* ----------------------------------------------------------------------

\* head, then the type token and the modifiers joined by ;
AnnotationText(head, token, modifiers) ==
    head \o Join(<<token>> \o modifiers, <<";">>)

InitAnn ==
    /\ pc = "annotation"
    /\ \E head \in AnnHeads, token \in TypeTokens, mods \in SeqsUpTo(ModifierPool, MaxModifiers) :
          annText = AnnotationText(head, token, mods)
    /\ annOut = Nil
    /\ ParseIdle /\ ValueIdle /\ DocIdle /\ ExtIdle

CallParseAnnotation ==
    /\ pc = "annotation"
    /\ annOut' = ParseAnnotation(annText)
    /\ pc' = "annotated"
    /\ UNCHANGED <<annText, parseVars, valueVars, docVars, extVars>>

NextAnn ==
    CallParseAnnotation

SpecAnn ==
    InitAnn /\ [][NextAnn]_vars

\* ----------------------------------------------------------------------
\* ValidateValue on a value and an annotation
\* ----------------------------------------------------------------------

AnnotationPool ==
    [PromptText : {<<"P">>},
     Type : VariableTypes,
     Constraints : SeqsUpTo(ConstraintPool, MaxConstraints),
     IsOptional : BOOLEAN,
     IsSecret : {FALSE}]

InitValue ==
    /\ pc = "value"
    /\ vValue \in ValuePool
    /\ vAnn \in AnnotationPool \cup {Nil}
    /\ vErr = Nil
    /\ ParseIdle /\ AnnIdle /\ DocIdle /\ ExtIdle

CallValidateValue ==
    /\ pc = "value"
    /\ vErr' = ValidateValue(vValue, vAnn)
    /\ pc' = "validated"
    /\ UNCHANGED <<vValue, vAnn, parseVars, annVars, docVars, extVars>>

NextValue ==
    CallValidateValue

SpecValue ==
    InitValue /\ [][NextValue]_vars

\* ----------------------------------------------------------------------
\* Validation of a target against a distributable: the validate command's
\* validateFile, envfile.ValidateFile, and ValidateEnvFile on one file
\* ----------------------------------------------------------------------

DistFiles ==
    {parseLines(ls).envFile : ls \in SeqsUpTo(DistLinePool, MaxDocLines)}

TargetFiles ==
    {parseLines(ls).envFile : ls \in SeqsUpTo(TargetLinePool, MaxDocLines)}

InitDoc ==
    /\ pc = "validating"
    /\ distFile \in DistFiles
    /\ \/ entry = "validateFile" /\ targetFile \in TargetFiles
          /\ \E flag \in BOOLEAN : strict = StrictMode(flag, distFile)
       \/ entry = "ValidateFile" /\ targetFile \in TargetFiles /\ strict = FALSE
       \/ entry = "ValidateEnvFile" /\ targetFile = NewParse.envFile /\ strict = FALSE
    /\ distIdx = 0
    /\ result = NewValidationResult
    /\ ParseIdle /\ AnnIdle /\ ValueIdle /\ ExtIdle

DocStep(fn) ==
    /\ pc = "validating"
    /\ entry = fn
    /\ distIdx < Len(distFile.Variables)
    /\ distIdx' = distIdx + 1
    /\ UNCHANGED <<pc, distFile, targetFile, entry, strict, parseVars, annVars, valueVars, extVars>>

\* one iteration of validateFile's loop
ValidateFileCmdStep ==
    /\ DocStep("validateFile")
    /\ result' = validateFileStep(result, distFile.Variables[distIdx + 1], targetFile, strict)

\* one iteration of envfile.ValidateFile's loop
ValidateFileLibStep ==
    /\ DocStep("ValidateFile")
    /\ result' = LibValidateFileStep(result, distFile.Variables[distIdx + 1], targetFile)

\* one iteration of ValidateEnvFile's loop
ValidateEnvFileLoop ==
    /\ DocStep("ValidateEnvFile")
    /\ result' = ValidateEnvFileStep(result, distFile.Variables[distIdx + 1])

\* the loop is over: the result is returned
ReturnResult ==
    /\ pc = "validating"
    /\ distIdx = Len(distFile.Variables)
    /\ pc' = "returned"
    /\ UNCHANGED <<docVars, parseVars, annVars, valueVars, extVars>>

NextDoc ==
    \/ ValidateFileCmdStep
    \/ ValidateFileLibStep
    \/ ValidateEnvFileLoop
    \/ ReturnResult

SpecDoc ==
    InitDoc /\ [][NextDoc]_vars

\* ----------------------------------------------------------------------
\* Properties of parseLines
\* ----------------------------------------------------------------------

\* the tokenizer's result for each line read
Tokens ==
    [i \in 1..Len(lines) |-> TokenizeLine(lines[i])]

\* the variable name line i carries, Empty when it carries none
NameIn(toks, i) ==
    IF toks[i].err = Nil THEN toks[i].name ELSE Empty

FirstLineIn(toks, name) ==
    CHOOSE i \in 1..Len(toks) :
        NameIn(toks, i) = name /\ \A j \in 1..(i - 1) : NameIn(toks, j) # name

LastLineIn(toks, name) ==
    CHOOSE i \in 1..Len(toks) :
        NameIn(toks, i) = name /\ \A j \in (i + 1)..Len(toks) : NameIn(toks, j) # name

\* the annotation a tokenized line gives its variable
AnnotationIn(tok) ==
    IF tok.annotation = Empty THEN Nil
    ELSE LET parsed == ParseAnnotation(tok.annotation)
         IN  IF parsed.err # Nil THEN Nil ELSE parsed.ann

\* C1: the variables hold exactly one entry per distinct valid name read, in the
\* order of the names' first occurrences, each with the value, annotation and
\* line number of the name's last occurrence.
C1_UniqueLastWins ==
    LET V == envFile.Variables
        toks == Tokens
        names == {NameIn(toks, i) : i \in 1..Len(toks)} \ {Empty}
    IN  /\ Len(V) = Cardinality(names)
        /\ \A k \in 1..Len(V) : V[k].Name \in names
        /\ \A j, k \in 1..Len(V) :
              j < k => /\ V[j].Name # V[k].Name
                       /\ FirstLineIn(toks, V[j].Name) < FirstLineIn(toks, V[k].Name)
        /\ \A k \in 1..Len(V) :
              LET l == LastLineIn(toks, V[k].Name)
              IN  /\ V[k].LineNumber = l
                  /\ V[k].Value = TrimSpace(toks[l].value)
                  /\ V[k].Annotation = AnnotationIn(toks[l])

\* a name read on lines 1 and 3 with another name between them: the entry stays
\* first and carries line 3
C1_Witness ==
    LET toks == Tokens
    IN  /\ Len(lines) = 3
        /\ NameIn(toks, 1) # Empty /\ NameIn(toks, 3) = NameIn(toks, 1)
        /\ NameIn(toks, 2) # Empty /\ NameIn(toks, 2) # NameIn(toks, 1)
        /\ toks[1].value # toks[3].value
        /\ Len(envFile.Variables) = 2
        /\ envFile.Variables[1].Name = NameIn(toks, 1)
        /\ envFile.Variables[1].LineNumber = 3

\* the lines read, each line the tokenizer rejects replaced by an empty line
WithoutRejected(toks) ==
    [i \in 1..Len(lines) |-> IF toks[i].err # Nil THEN Empty ELSE lines[i]]

\* line i is a variable line whose annotation text fails to parse
AnnotationFailsIn(toks, i) ==
    /\ NameIn(toks, i) # Empty
    /\ toks[i].annotation # Empty
    /\ ParseAnnotation(toks[i].annotation).err # Nil

\* C2: parseLines returns no error whatever the lines; a line the tokenizer
\* rejects leaves the document as if the line were empty; a variable line whose
\* annotation fails to parse is kept as a variable without annotation.
C2_NeverRaises ==
    LET toks == Tokens
    IN  /\ pc \in {"parsed", "reparsed"} => parseErr = Nil
        /\ (\E i \in 1..Len(lines) : toks[i].err # Nil)
              => /\ pc = "loop" => LoopState = ParseLoop(NewParse, WithoutRejected(toks), 0)
                 /\ pc \in {"parsed", "reparsed"}
                       => envFile = parseLines(WithoutRejected(toks)).envFile
        /\ \A i \in 1..Len(lines) :
              AnnotationFailsIn(toks, i) /\ LastLineIn(toks, NameIn(toks, i)) = i
              => \E k \in 1..Len(envFile.Variables) :
                    /\ envFile.Variables[k].Name = NameIn(toks, i)
                    /\ envFile.Variables[k].LineNumber = i
                    /\ envFile.Variables[k].Annotation = Nil

\* a rejected line among the lines, and a kept variable whose annotation failed
C2_Witness ==
    LET toks == Tokens
    IN  /\ pc = "parsed"
        /\ \E i \in 1..Len(lines) : toks[i].err # Nil
        /\ \E i \in 1..Len(lines) :
              /\ AnnotationFailsIn(toks, i)
              /\ \E k \in 1..Len(envFile.Variables) :
                    envFile.Variables[k].LineNumber = i /\ envFile.Variables[k].Annotation = Nil
        /\ parseErr = Nil

StartsWithHash(line) ==
    TrimSpace(line) # <<>> /\ TrimSpace(line)[1] = "#"

\* the number of lines read that the branch `kind` took
KindCount(kind) ==
    Cardinality({i \in 1..Len(lines) : lineKind[i] = kind})

\* what every reading of the claim shares: each line is taken by exactly one
\* branch, a comment is a line opening with # that is no config line and holds
\* no `marker`, and no line feeds two of config, comments and variables
ClassifiedBy(marker) ==
    /\ Len(lineKind) = Len(lines)
    /\ \A i \in 1..Len(lines) :
          /\ lineKind[i] \in {"config", "comment", "empty", "variable"}
          /\ lineKind[i] = "config" <=> HasPrefix(TrimSpace(lines[i]), KrakenvPrefix)
          /\ lineKind[i] = "comment"
                <=> /\ StartsWithHash(lines[i])
                    /\ ~HasPrefix(TrimSpace(lines[i]), KrakenvPrefix)
                    /\ ~Contains(lines[i], marker)
          /\ lineKind[i] = "empty" => TrimSpace(lines[i]) = Empty
          /\ StartsWithHash(lines[i])
                => \A k \in 1..Len(envFile.Variables) : envFile.Variables[k].LineNumber # i
    /\ Len(configLines) = KindCount("config")
    /\ \A k \in 1..Len(envFile.Comments) : lineKind[envFile.Comments[k].LineNumber] = "comment"
    /\ \A k \in 1..Len(envFile.Variables) : lineKind[envFile.Variables[k].LineNumber] = "variable"

\* C3 as amended: a line is a standalone comment iff it starts with #, is not a
\* config line and does not contain the marker preceded by a space, " #prompt:";
\* each line is taken by exactly one branch and feeds at most one of config,
\* comments and variables; a line starting with # never gives a variable.
C3_Classification ==
    ClassifiedBy(AnnotationMarker)

\* C3 as stated: the marker is "#prompt:" anywhere in the line.
C3_AsStated ==
    ClassifiedBy(PromptPrefix)

\* a comment that opens with the marker and a commented-out annotated variable
C3_Witness ==
    /\ \E i \in 1..Len(lines) :
          /\ lineKind[i] = "comment" /\ Contains(lines[i], PromptPrefix)
          /\ \E k \in 1..Len(envFile.Comments) : envFile.Comments[k].LineNumber = i
    /\ \E i \in 1..Len(lines) :
          /\ StartsWithHash(lines[i]) /\ Contains(lines[i], AnnotationMarker)
          /\ lineKind[i] = "variable"

\* an annotation's fields, nil or not
SameAnnotation(a, b) ==
    IF a = Nil \/ b = Nil THEN a = b
    ELSE /\ a.Type = b.Type
         /\ a.PromptText = b.PromptText
         /\ a.Constraints = b.Constraints
         /\ a.IsOptional = b.IsOptional
         /\ a.IsSecret = b.IsSecret

\* two documents with the same variables in the same order and the same config
Equivalent(f, g) ==
    /\ Len(f.Variables) = Len(g.Variables)
    /\ \A k \in 1..Len(f.Variables) :
          /\ f.Variables[k].Name = g.Variables[k].Name
          /\ f.Variables[k].Value = g.Variables[k].Value
          /\ SameAnnotation(f.Variables[k].Annotation, g.Variables[k].Annotation)
    /\ f.Config = g.Config

\* C4: the document parsed from the text written back (FormatConfig, then
\* FormatVariable with annotations) is equivalent to the document written.
C4_ReparseIdempotent ==
    pc = "reparsed" => Equivalent(envFile, reparsed)
\* ----------------------------------------------------------------------
\* Properties of the validation of a target against a distributable
\* ----------------------------------------------------------------------

\* the errors result holds for the variable `name`
OutcomesOf(name) ==
    {i \in 1..Len(result.Errors) : result.Errors[i].Variable = name}

\* an outcome that reports a value rejected by ValidateValue
IsValueFailure(e) ==
    e.Message # MsgRequiredVariable /\ e.Message # MsgNoAnnotationStrict

\* the outcome type the message of a failure stands for
TypeOfMessage(message) ==
    IF Contains(message, <<"r", "e", "q", "u", "i", "r", "e", "d">>)
    THEN ErrorMissingRequired
    ELSE IF \/ Contains(message, <<"n", "o", "t", " ", "i", "n", " ", "a", "l", "l", "o", "w", "e", "d">>)
            \/ Contains(message, <<"d", "o", "e", "s", " ", "n", "o", "t", " ", "m", "a", "t", "c", "h">>)
         THEN ErrorConstraintViolation
    ELSE ErrorInvalidType

\* C5: in the validation of a target against a distributable, by the validate
\* command's validateFile and by envfile.ValidateFile, the type of every outcome
\* for a rejected value is the one its message stands for: missingRequired for
\* "required", constraintViolation for "not in allowed" or "does not match",
\* invalidType otherwise.
C5_TypeFromMessage ==
    entry \in {"validateFile", "ValidateFile"} =>
        \A i \in 1..Len(result.Errors) :
            IsValueFailure(result.Errors[i]) =>
                result.Errors[i].Type = TypeOfMessage(result.Errors[i].Message)

\* the distributable's variable fails: absent from the target and required, or
\* present with a value ValidateValue rejects (for ValidateEnvFile, its own
\* value); under strict mode, also present and without annotation
Fails(distVar) ==
    LET targetVar == GetVariable(targetFile, distVar.Name)
    IN  IF entry = "ValidateEnvFile"
        THEN distVar.Annotation # Nil /\ ValidateValue(distVar.Value, distVar.Annotation) # Nil
        ELSE IF distVar.Annotation = Nil THEN strict /\ targetVar # Nil
        ELSE IF targetVar = Nil THEN ~distVar.Annotation.IsOptional
        ELSE ValidateValue(targetVar.Value, distVar.Annotation) # Nil

\* the names of the failing variables among the first n of the distributable
RECURSIVE FailingNames(_)
FailingNames(n) ==
    IF n = 0 THEN <<>>
    ELSE FailingNames(n - 1)
         \o (IF Fails(distFile.Variables[n]) THEN <<distFile.Variables[n].Name>> ELSE <<>>)

\* C6: the result holds exactly one error per failing variable of the
\* distributable examined so far, in the distributable's order, however many
\* failed before it; and Valid is true iff there is no error.
C6_CollectsAll ==
    entry # "none" =>
        /\ [i \in 1..Len(result.Errors) |-> result.Errors[i].Variable] = FailingNames(distIdx)
        /\ result.Valid <=> result.Errors = <<>>

\* two variables of the distributable fail and both are reported, the second
\* after the first
C6_Witness ==
    /\ pc = "returned"
    /\ Len(distFile.Variables) = 2
    /\ Fails(distFile.Variables[1]) /\ Fails(distFile.Variables[2])
    /\ Len(result.Errors) = 2
    /\ result.Errors[1].Variable = distFile.Variables[1].Name
    /\ result.Errors[2].Variable = distFile.Variables[2].Name
    /\ ~result.Valid

\* C7: with strict mode off, a variable of the distributable has a
\* missingRequired outcome iff it is absent from the target and has an annotation
\* that is not optional; absent and optional it has no outcome; without
\* annotation it has no outcome, present or not.
C7_MissingRequiredIff ==
    (entry \in {"validateFile", "ValidateFile"} /\ ~strict) =>
        \A k \in 1..distIdx :
            LET distVar == distFile.Variables[k]
                absent == GetVariable(targetFile, distVar.Name) = Nil
                outcomes == OutcomesOf(distVar.Name)
            IN  /\ (\E i \in outcomes : result.Errors[i].Type = ErrorMissingRequired)
                       <=> (absent /\ distVar.Annotation # Nil
                            /\ ~distVar.Annotation.IsOptional)
                /\ (absent /\ distVar.Annotation # Nil /\ distVar.Annotation.IsOptional)
                       => outcomes = {}
                /\ distVar.Annotation = Nil => outcomes = {}

\* ----------------------------------------------------------------------
\* Properties of ValidateValue
\* ----------------------------------------------------------------------

\* C8: ValidateValue returns no error for any value when the annotation is nil,
\* and no error for the empty value when the annotation is optional, whatever
\* its type and constraints.
C8_NilOrOptionalEmpty ==
    pc = "validated" =>
        /\ vAnn = Nil => vErr = Nil
        /\ (vAnn # Nil /\ vAnn.IsOptional /\ vValue = Empty) => vErr = Nil

\* the empty value passes an optional int annotation that has a min constraint
C8_Witness ==
    /\ pc = "validated"
    /\ vAnn # Nil
    /\ vAnn.IsOptional
    /\ vAnn.Type = TypeInt
    /\ GetConstraint(vAnn, StrMin) = <<"1">>
    /\ vValue = Empty
    /\ vErr = Nil

\* the value of at most seven decimal digits
RECURSIVE ChunkValue(_)
ChunkValue(ds) ==
    IF ds = <<>> THEN 0
    ELSE 10 * ChunkValue(SubSeq(ds, 1, Len(ds) - 1)) + DigitValue(ds[Len(ds)])

\* an optional sign, then one to twenty-one decimal digits
IsNumeral(s) ==
    LET body == IF s # <<>> /\ s[1] \in {"+", "-"} THEN Tail(s) ELSE s
    IN  /\ body # <<>>
        /\ Len(body) <= 21
        /\ \A i \in 1..Len(body) : body[i] \in {"0", "1", "2", "3", "4", "5", "6", "7", "8", "9"}

\* the number a numeral denotes, in base 10^7, most significant first, each
\* digit carrying the sign
NumeralValue(s) ==
    LET sign == IF s[1] = "-" THEN -1 ELSE 1
        body == IF s[1] \in {"+", "-"} THEN Tail(s) ELSE s
        n == Len(body)
    IN  <<sign * ChunkValue(SubSeq(body, 1, n - 14)),
          sign * ChunkValue(SubSeq(body, IF n > 14 THEN n - 13 ELSE 1, n - 7)),
          sign * ChunkValue(SubSeq(body, IF n > 7 THEN n - 6 ELSE 1, n))>>

\* a <= b on numbers in base 10^7
NumberLeq(a, b) ==
    \/ a[1] < b[1]
    \/ a[1] = b[1] /\ a[2] < b[2]
    \/ a[1] = b[1] /\ a[2] = b[2] /\ a[3] <= b[3]

\* the text is a base-10 integer within the signed 64-bit range
IsInt64(s) ==
    /\ IsNumeral(s)
    /\ NumberLeq(<<-92233, -7203685, -4775808>>, NumeralValue(s))
    /\ NumberLeq(NumeralValue(s), <<92233, 7203685, 4775807>>)

\* C9: under an int annotation that is not optional, a value is accepted iff it
\* is a base-10 signed 64-bit integer n with min <= n when the min constraint is
\* an integer and n <= max when the max constraint is an integer; a min or max
\* constraint that is not an integer rejects nothing. The min (max) constraint is
\* the first constraint of that name, as GetConstraint returns it.
C9_IntAccepted ==
    (pc = "validated" /\ vAnn # Nil /\ vAnn.Type = TypeInt /\ ~vAnn.IsOptional) =>
        LET min == GetConstraint(vAnn, StrMin)
            max == GetConstraint(vAnn, StrMax)
        IN  vErr = Nil <=>
                /\ IsInt64(vValue)
                /\ IsInt64(min) => NumberLeq(NumeralValue(min), NumeralValue(vValue))
                /\ IsInt64(max) => NumberLeq(NumeralValue(vValue), NumeralValue(max))

\* a value equal to the max bound is accepted beside a min constraint that is
\* not an integer
C9_Witness ==
    /\ pc = "validated"
    /\ vAnn # Nil
    /\ vAnn.Type = TypeInt
    /\ ~vAnn.IsOptional
    /\ GetConstraint(vAnn, StrMin) = <<"a", "b", "c">>
    /\ GetConstraint(vAnn, StrMax) = <<"1", "0">>
    /\ vValue = <<"1", "0">>
    /\ vErr = Nil

\* ----------------------------------------------------------------------
\* Properties of ParseAnnotation
\* ----------------------------------------------------------------------

\* the text has the annotation prefix and a |
HasPrefixAndPipe(text) ==
    /\ HasPrefix(TrimSpace(text), PromptPrefix)
    /\ Contains(TrimPrefix(TrimSpace(text), PromptPrefix), <<"|">>)

\* what follows the first | of the annotation
Remainder(text) ==
    LET content == TrimPrefix(TrimSpace(text), PromptPrefix)
    IN  SliceFrom(content, Index(content, <<"|">>) + 1)

\* the remainder up to its first ;
FirstElement(text) ==
    LET rest == Remainder(text)
    IN  IF Contains(rest, <<";">>) THEN Slice(rest, 0, Index(rest, <<";">>)) ELSE rest

KnownTypeNames ==
    {StrString, StrInt, StrNumeric, StrBoolean, StrEnum, StrObject}

\* ParseAnnotation returned the missing type error
MissingTypeReturned ==
    annOut.ann = Nil /\ annOut.err = ErrMissingType

\* what the claim says of every annotation with prefix and |, the missing type
\* error being returned exactly when `missing` holds
TypeRule(missing) ==
    (pc = "annotated" /\ HasPrefixAndPipe(annText)) =>
        /\ MissingTypeReturned <=> missing
        /\ ~missing => annOut.err = Nil /\ annOut.ann # Nil
        /\ (annOut.err = Nil /\ TrimSpace(FirstElement(annText)) \notin KnownTypeNames)
               => annOut.ann.Type = TypeString

\* C10 as the code has it: ParseAnnotation fails with the missing type error
\* exactly when the first ;-separated element after the first | is empty, before
\* any trimming; in every other case with prefix and | it succeeds, and a type
\* token that is not a known type, a whitespace-only one included, gives type
\* string.
C10_MissingTypeIffFirstEmpty ==
    TypeRule(FirstElement(annText) = Empty)

\* C10 as stated: ParseAnnotation fails with the missing type error exactly when
\* the whole remainder after the first | is empty, and succeeds in every other
\* case with prefix and |, a blank first element followed by modifiers included.
C10_AsStated ==
    TypeRule(Remainder(annText) = Empty)

\* a whitespace-only first element followed by a modifier: the annotation is
\* parsed, with type string
C10_Witness ==
    /\ pc = "annotated"
    /\ HasPrefixAndPipe(annText)
    /\ FirstElement(annText) # Empty
    /\ TrimSpace(FirstElement(annText)) = Empty
    /\ Remainder(annText) # FirstElement(annText)
    /\ annOut.err = Nil
    /\ annOut.ann.Type = TypeString
    /\ annOut.ann.IsOptional

\* ----------------------------------------------------------------------
\* Properties of the annotation's constraints
\* ----------------------------------------------------------------------

KnownConstraintNames ==
    {StrMin, StrMax, StrMinlen, StrMaxlen, StrPattern, StrOptions, StrFormat, StrEncoding}

\* the ;-separated elements that follow the type token
ModifierTexts(text) ==
    Tail(Split(Remainder(text), <<";">>))

\* the name of a name:value modifier: what precedes its first colon
ModifierName(modifier) ==
    TrimSpace(Slice(TrimSpace(modifier), 0, Index(TrimSpace(modifier), <<":">>)))

ModifierValue(modifier) ==
    TrimSpace(SliceFrom(TrimSpace(modifier), Index(TrimSpace(modifier), <<":">>) + 1))

\* a name:value modifier with a known constraint name
IsKnownConstraint(modifier) ==
    Contains(modifier, <<":">>) /\ ModifierName(modifier) \in KnownConstraintNames

\* the constraints the modifiers of the text stand for, in encounter order
ExpectedConstraints(text) ==
    LET kept == SelectSeq(ModifierTexts(text), IsKnownConstraint)
    IN  [i \in 1..Len(kept) |-> [Name |-> ModifierName(kept[i]), Value |-> ModifierValue(kept[i])]]

\* the value of the first constraint with the name, Empty when there is none
FirstMatch(constraints, name) ==
    LET at == {i \in 1..Len(constraints) : constraints[i].Name = name}
    IN  IF at = {} THEN Empty
        ELSE constraints[CHOOSE i \in at : \A j \in at : i <= j].Value

\* C11: the constraints of a parsed annotation are exactly the name:value
\* modifiers with a known constraint name, in encounter order, duplicates kept;
\* modifiers with an unknown name are dropped without error; GetConstraint
\* returns the first entry with the name.
C11_ConstraintsInOrder ==
    (pc = "annotated" /\ HasPrefixAndPipe(annText) /\ FirstElement(annText) # Empty) =>
        /\ annOut.err = Nil
        /\ annOut.ann.Constraints = ExpectedConstraints(annText)
        /\ \A name \in KnownConstraintNames \cup {<<"b", "o", "g", "u", "s">>} :
              GetConstraint(annOut.ann, name) = FirstMatch(annOut.ann.Constraints, name)

\* two min modifiers: both are kept in order and the lookup returns the first
C11_Witness ==
    /\ pc = "annotated"
    /\ annOut.err = Nil
    /\ Len(annOut.ann.Constraints) = 2
    /\ annOut.ann.Constraints[1] = [Name |-> StrMin, Value |-> <<"1">>]
    /\ annOut.ann.Constraints[2] = [Name |-> StrMin, Value |-> <<"2">>]
    /\ GetConstraint(annOut.ann, StrMin) = <<"1">>

\* the prompt text: what stands between the prefix and the first |, trimmed
ExpectedPromptText(text) ==
    LET content == TrimPrefix(TrimSpace(text), PromptPrefix)
    IN  TrimSpace(Slice(content, 0, Index(content, <<"|">>)))

\* one of the modifiers is the flag
HasFlag(text, flag) ==
    \E i \in 1..Len(ModifierTexts(text)) : TrimSpace(ModifierTexts(text)[i]) = flag

\* the type token is enum and the first options constraint is absent or empty
EnumWithoutOptions(text) ==
    /\ TrimSpace(FirstElement(text)) = StrEnum
    /\ FirstMatch(ExpectedConstraints(text), StrOptions) = Empty

\* C12: no annotation ParseAnnotation returns has type enum with an absent or
\* empty options constraint (first match): when the type token is enum and the
\* options are absent or empty, the annotation has type string, there is no
\* error, and prompt text, constraints and flags are as parsed; an enum with
\* options stays an enum.
C12_NoEnumWithoutOptions ==
    (pc = "annotated" /\ annOut.err = Nil) =>
        /\ ~(annOut.ann.Type = TypeEnum /\ GetConstraint(annOut.ann, StrOptions) = Empty)
        /\ EnumWithoutOptions(annText) =>
              /\ annOut.ann.Type = TypeString
              /\ annOut.ann.PromptText = ExpectedPromptText(annText)
              /\ annOut.ann.Constraints = ExpectedConstraints(annText)
              /\ annOut.ann.IsOptional = HasFlag(annText, StrOptional)
              /\ annOut.ann.IsSecret = HasFlag(annText, StrSecret)
        /\ (TrimSpace(FirstElement(annText)) = StrEnum /\ ~EnumWithoutOptions(annText))
              => annOut.ann.Type = TypeEnum

\* an optional enum whose options constraint is empty: type string, the
\* constraint and the flag kept
C12_Witness ==
    /\ pc = "annotated"
    /\ annOut.err = Nil
    /\ EnumWithoutOptions(annText)
    /\ annOut.ann.Type = TypeString
    /\ annOut.ann.Constraints = <<[Name |-> StrOptions, Value |-> Empty]>>
    /\ annOut.ann.IsOptional

\* ----------------------------------------------------------------------
\* parseLines on config lines
\* ----------------------------------------------------------------------

\* '#krakenv:strict=no'
CfgStrictNo ==
    <<"#", "k", "r", "a", "k", "e", "n", "v", ":", "s", "t", "r", "i", "c", "t", "=", "n", "o">>

\* '  #krakenv: strict = yes '
CfgSpacedStrict ==
    <<" ", " ", "#", "k", "r", "a", "k", "e", "n", "v", ":", " ", "s", "t", "r", "i", "c", "t",
      " ", "=", " ", "y", "e", "s", " ">>

\* '#krakenv:distPath='
CfgDistPathEmpty ==
    <<"#", "k", "r", "a", "k", "e", "n", "v", ":", "d", "i", "s", "t", "P", "a", "t", "h", "=">>

\* '#krakenv:distPath=e'
CfgDistPathE ==
    <<"#", "k", "r", "a", "k", "e", "n", "v", ":", "d", "i", "s", "t", "P", "a", "t", "h", "=",
      "e">>

\* '#krakenv:environments=a, b,'
CfgEnvs ==
    <<"#", "k", "r", "a", "k", "e", "n", "v", ":", "e", "n", "v", "i", "r", "o", "n", "m", "e",
      "n", "t", "s", "=", "a", ",", " ", "b", ",">>

\* '#krakenv:environments='
CfgEnvsNone ==
    <<"#", "k", "r", "a", "k", "e", "n", "v", ":", "e", "n", "v", "i", "r", "o", "n", "m", "e",
      "n", "t", "s", "=">>

\* '#krakenv:bogus=1'
CfgBogus ==
    <<"#", "k", "r", "a", "k", "e", "n", "v", ":", "b", "o", "g", "u", "s", "=", "1">>

\* '#krakenv:strict'
CfgNoEquals ==
    <<"#", "k", "r", "a", "k", "e", "n", "v", ":", "s", "t", "r", "i", "c", "t">>

\* config lines, and lines that are none
ConfigLinePool ==
    {LnStrict,
     LnDistPath,
     LnA1,
     LnComment,
     CfgStrictNo,
     CfgSpacedStrict,
     CfgDistPathEmpty,
     CfgDistPathE,
     CfgEnvs,
     CfgEnvsNone,
     CfgBogus,
     CfgNoEquals}

\* one iteration of parseLines' loop on a line of the config pool
ReadConfigInput ==
    \E line \in ConfigLinePool : ReadLine(line, LineBranch(line))

NextParseConfig ==
    \/ ReadConfigInput
    \/ EndOfLines

SpecParseConfig ==
    InitParse /\ [][NextParseConfig]_vars

\* the line, trimmed, starts with the config marker
StartsWithConfigMarker(line) ==
    /\ Len(TrimSpace(line)) >= Len(KrakenvPrefix)
    /\ SubSeq(TrimSpace(line), 1, Len(KrakenvPrefix)) = KrakenvPrefix

\* what follows the config marker
ConfigContent(line) ==
    SliceFrom(TrimSpace(line), Len(KrakenvPrefix))

\* the key a config line carries, Empty when it has no =
ConfigKey(line) ==
    IF StartsWithConfigMarker(line) /\ Contains(ConfigContent(line), <<"=">>)
    THEN TrimSpace(Slice(ConfigContent(line), 0, Index(ConfigContent(line), <<"=">>)))
    ELSE Empty

ConfigValue(line) ==
    TrimSpace(SliceFrom(ConfigContent(line), Index(ConfigContent(line), <<"=">>) + 1))

\* C13: the document's config is present iff a config line was among the input
\* lines; config lines with an unknown key or without = alone give a config with
\* the default values.
C13_ConfigIffConfigLine ==
    pc = "parsed" =>
        LET seen == {i \in 1..Len(lines) : StartsWithConfigMarker(lines[i])}
        IN  /\ envFile.Config # Nil <=> seen # {}
            /\ (seen # {} /\ \A i \in seen :
                                ConfigKey(lines[i]) \notin {StrEnvironments, StrStrict, StrDistPath})
                   => envFile.Config = [Environments |-> <<<<"l", "o", "c", "a", "l">>>>,
                                        Strict |-> FALSE,
                                        DistPath |-> <<".", "e", "n", "v", ".", "d", "i", "s", "t">>]

\* the only config lines are one without = and one with an unknown key: the
\* config is present, with the default values
C13_Witness ==
    /\ pc = "parsed"
    /\ Len(lines) >= 2
    /\ \A i \in 1..Len(lines) :
          StartsWithConfigMarker(lines[i]) => ConfigKey(lines[i]) \notin {StrEnvironments, StrStrict, StrDistPath}
    /\ \E i \in 1..Len(lines) : StartsWithConfigMarker(lines[i]) /\ ConfigKey(lines[i]) = Empty
    /\ \E i \in 1..Len(lines) : ~StartsWithConfigMarker(lines[i])
    /\ envFile.Config # Nil
    /\ envFile.Config.Strict = FALSE

\* the last line carrying the key, with a value that is not empty when
\* `filled`; 0 when there is none
LastLineWith(cfgLines, key, filled) ==
    LET at == {i \in 1..Len(cfgLines) :
                  ConfigKey(cfgLines[i]) = key /\ (filled => ConfigValue(cfgLines[i]) # Empty)}
    IN  IF at = {} THEN 0 ELSE CHOOSE i \in at : \A j \in at : j <= i

\* the comma-separated elements of a value, trimmed, the empty ones left out
ListedEnvironments(value) ==
    LET trimmed == [i \in 1..Len(Split(value, <<",">>)) |-> TrimSpace(Split(value, <<",">>)[i])]
        IsFilled(e) == e # Empty
    IN  SelectSeq(trimmed, IsFilled)

\* the two config lines at i and i + 1 exchanged
SwapAdjacent(cfgLines, i) ==
    [k \in 1..Len(cfgLines) |->
        IF k = i THEN cfgLines[i + 1] ELSE IF k = i + 1 THEN cfgLines[i] ELSE cfgLines[k]]

\* C14: each field of ParseConfig's result is given by the last config line
\* carrying its key (for distPath the last with a value that is not empty), the
\* default when there is none; lines with an unknown key or without = change
\* nothing; exchanging two neighbouring lines that carry different keys never
\* changes the result.
C14_LastWriteWins ==
    (pc = "parsed" /\ configLines # <<>>) =>
        LET dist == LastLineWith(configLines, StrDistPath, TRUE)
            envs == LastLineWith(configLines, StrEnvironments, FALSE)
            strct == LastLineWith(configLines, StrStrict, FALSE)
        IN  /\ envFile.Config.DistPath =
                  IF dist = 0 THEN <<".", "e", "n", "v", ".", "d", "i", "s", "t">>
                  ELSE ConfigValue(configLines[dist])
            /\ envFile.Config.Environments =
                  IF envs = 0 THEN <<<<"l", "o", "c", "a", "l">>>>
                  ELSE ListedEnvironments(ConfigValue(configLines[envs]))
            /\ envFile.Config.Strict =
                  IF strct = 0 THEN FALSE
                  ELSE ConfigValue(configLines[strct]) \in
                          {<<"t", "r", "u", "e">>, <<"1">>, <<"y", "e", "s">>}
            /\ \A i \in 1..(Len(configLines) - 1) :
                  ConfigKey(configLines[i]) # ConfigKey(configLines[i + 1])
                      => ParseConfig(SwapAdjacent(configLines, i)) = envFile.Config

\* distPath given twice and then with an empty value: the second value stays
C14_Witness ==
    /\ pc = "parsed"
    /\ Len(configLines) = 3
    /\ ConfigKey(configLines[1]) = StrDistPath /\ ConfigValue(configLines[1]) = <<"d">>
    /\ ConfigKey(configLines[2]) = StrDistPath /\ ConfigValue(configLines[2]) = <<"e">>
    /\ ConfigKey(configLines[3]) = StrDistPath /\ ConfigValue(configLines[3]) = Empty
    /\ envFile.Config.DistPath = <<"e">>

\* ----------------------------------------------------------------------
\* TokenizeLine on one line
\* ----------------------------------------------------------------------

\* 'A'
NameA ==
    <<"A">>

\* ' A_1 '
NameSpaced ==
    <<" ", "A", "_", "1", " ">>

\* 'b'
NameLower ==
    <<"b">>

\* ''
NameNone ==
    <<>>

\* what stands before the = of a line
TokenNames ==
    {NameA,
     NameSpaced,
     NameLower,
     NameNone}

\* ''
RegionNone ==
    <<>>

\* '   '
RegionBlank ==
    <<" ", " ", " ">>

\* '"   "'
RegionQuotedBlank ==
    <<"\"", " ", " ", " ", "\"">>

\* "'  '"
RegionSingleQuotedBlank ==
    <<"'", " ", " ", "'">>

\* '""'
RegionQuotedNothing ==
    <<"\"", "\"">>

\* 'x'
RegionWord ==
    <<"x">>

\* ' x '
RegionSpacedWord ==
    <<" ", "x", " ">>

\* '"x"'
RegionQuotedWord ==
    <<"\"", "x", "\"">>

\* "' x '"
RegionQuotedSpacedWord ==
    <<"'", " ", "x", " ", "'">>

\* '"'
RegionLoneQuote ==
    <<"\"">>

\* '"x\''
RegionMixedQuotes ==
    <<"\"", "x", "'">>

\* '\'"q"\''
RegionNestedQuotes ==
    <<"'", "\"", "q", "\"", "'">>

\* ' "  " '
RegionSpacedQuotedBlank ==
    <<" ", "\"", " ", " ", "\"", " ">>

\* what stands between the = and the annotation
TokenValueRegions ==
    {RegionNone,
     RegionBlank,
     RegionQuotedBlank,
     RegionSingleQuotedBlank,
     RegionQuotedNothing,
     RegionWord,
     RegionSpacedWord,
     RegionQuotedWord,
     RegionQuotedSpacedWord,
     RegionLoneQuote,
     RegionMixedQuotes,
     RegionNestedQuotes,
     RegionSpacedQuotedBlank}

\* ''
SuffixNone ==
    <<>>

\* ' #prompt:P|int'
SuffixAnnotation ==
    <<" ", "#", "p", "r", "o", "m", "p", "t", ":", "P", "|", "i", "n", "t">>

\* the annotation that ends a line
TokenSuffixes ==
    {SuffixNone,
     SuffixAnnotation}

\* ''
OtherEmpty ==
    <<>>

\* '# c'
OtherComment ==
    <<"#", " ", "c">>

\* 'noequals'
OtherNoEquals ==
    <<"n", "o", "e", "q", "u", "a", "l", "s">>

\* lines that are no assignment
OtherLines ==
    {OtherEmpty,
     OtherComment,
     OtherNoEquals}

\* the lines TokenizeLine is called on
TokenLinePool ==
    OtherLines \cup {name \o <<"=">> \o region \o suffix :
                        name \in TokenNames, region \in TokenValueRegions, suffix \in TokenSuffixes}

InitToken ==
    /\ pc = "token"
    /\ tokLine \in TokenLinePool
    /\ tokOut = Nil
    /\ CoreIdle /\ GenIdle /\ LaterIdle

CallTokenizeLine ==
    /\ pc = "token"
    /\ tokOut' = TokenizeLine(tokLine)
    /\ pc' = "tokenized"
    /\ UNCHANGED <<tokLine, coreVars, genVars, laterVars>>

NextToken ==
    CallTokenizeLine

SpecToken ==
    InitToken /\ [][NextToken]_vars

\* the line is an assignment the tokenizer accepted
TokenAccepted ==
    pc = "tokenized" /\ tokOut.err = Nil /\ tokOut.name # Empty

\* what stands between the first = and the annotation, trimmed
ValueRegion(line) ==
    LET rest == SliceFrom(TrimSpace(line), Index(TrimSpace(line), <<"=">>) + 1)
    IN  TrimSpace(IF Contains(rest, AnnotationMarker)
                  THEN Slice(rest, 0, Index(rest, AnnotationMarker))
                  ELSE rest)

\* the region is enclosed in a pair of matching quotes
IsQuoted(region) ==
    /\ Len(region) >= 2
    /\ region[1] = region[Len(region)]
    /\ region[1] \in {"\"", "'"}

\* the region without its pair of quotes
Unwrapped(region) ==
    IF IsQuoted(region) THEN SubSeq(region, 2, Len(region) - 1) ELSE region

\* the value the document holds for the one variable of the line
DocumentValue(line) ==
    parseLines(<<line>>).envFile.Variables[1].Value

\* C15 as the code has it: for every line the tokenizer accepts, the value
\* returned is the trimmed value region without its pair of matching quotes, and
\* what the quotes enclose is not trimmed: a whitespace-only value outside quotes
\* is returned empty, one inside quotes is returned as it is. The document built
\* from the line holds the trimmed value, empty in both cases.
C15_ValueUnwrappedOnce ==
    TokenAccepted =>
        /\ tokOut.value = Unwrapped(ValueRegion(tokLine))
        /\ DocumentValue(tokLine) = TrimSpace(Unwrapped(ValueRegion(tokLine)))
        /\ TrimSpace(Unwrapped(ValueRegion(tokLine))) = Empty => DocumentValue(tokLine) = Empty

\* C15 as stated: for every line the tokenizer accepts whose value is
\* whitespace-only after unwrapping a pair of surrounding quotes, the tokenizer
\* returns the empty string as the value.
C15_AsStated ==
    (TokenAccepted /\ TrimSpace(Unwrapped(ValueRegion(tokLine))) = Empty) => tokOut.value = Empty

\* blanks inside double quotes: the tokenizer returns the blanks, the document
\* holds the empty value
C15_Witness ==
    /\ TokenAccepted
    /\ IsQuoted(ValueRegion(tokLine))
    /\ Unwrapped(ValueRegion(tokLine)) = <<" ", " ", " ">>
    /\ tokOut.value = <<" ", " ", " ">>
    /\ DocumentValue(tokLine) = Empty

\* ----------------------------------------------------------------------
\* internal/generator
\* ----------------------------------------------------------------------

\* '#krakenv:environments='
ConfigEnvironmentsPrefix ==
    <<"#", "k", "r", "a", "k", "e", "n", "v", ":", "e", "n", "v", "i", "r", "o", "n", "m", "e",
      "n", "t", "s", "=">>

\* '#krakenv:strict=true'
ConfigStrictTrue ==
    <<"#", "k", "r", "a", "k", "e", "n", "v", ":", "s", "t", "r", "i", "c", "t", "=", "t", "r",
      "u", "e">>

\* '# '
CommentPrefix ==
    <<"#", " ">>

\* ','
StrComma ==
    <<",">>

\* 'generation aborted by user'
MsgAborted ==
    <<"g", "e", "n", "e", "r", "a", "t", "i", "o", "n", " ", "a", "b", "o", "r", "t", "e", "d",
      " ", "b", "y", " ", "u", "s", "e", "r">>

\* 'failed to write file: '
MsgWriteFailed ==
    <<"f", "a", "i", "l", "e", "d", " ", "t", "o", " ", "w", "r", "i", "t", "e", " ", "f", "i",
      "l", "e", ":", " ">>

\* 'failed to create file: '
MsgCreateFailed ==
    <<"f", "a", "i", "l", "e", "d", " ", "t", "o", " ", "c", "r", "e", "a", "t", "e", " ", "f",
      "i", "l", "e", ":", " ">>

\* the target holds a non-empty value for the name
ExistingValue(target, name) ==
    IF target # Nil /\ GetVariable(target, name) # Nil
    THEN GetVariable(target, name).Value
    ELSE Empty

\* GetVariablesToPrompt: the test of one variable
NeedsPrompt(v, target) ==
    /\ v.Annotation # Nil
    /\ v.Value = Empty
    /\ ExistingValue(target, v.Name) = Empty

GetVariablesToPrompt(dist, target) ==
    SelectSeq(dist.Variables, LAMBDA v : NeedsPrompt(v, target))

\* MergeVariables taking the target's whole variable where the target has a value
MergeVariableFromTarget(v, target, userValues) ==
    IF v.Name \in DOMAIN userValues
    THEN [v EXCEPT !.Value = userValues[v.Name], !.IsSet = TRUE]
    ELSE IF ExistingValue(target, v.Name) # Empty
    THEN [GetVariable(target, v.Name) EXCEPT !.IsSet = TRUE]
    ELSE [v EXCEPT !.IsSet = (v.Value # Empty)]

\* MergeVariables: one variable of the result
MergeVariable(v, target, userValues) ==
    IF v.Name \in DOMAIN userValues
    THEN [v EXCEPT !.Value = userValues[v.Name], !.IsSet = TRUE]
    ELSE IF ExistingValue(target, v.Name) # Empty
    THEN [v EXCEPT !.Value = ExistingValue(target, v.Name), !.IsSet = TRUE]
    ELSE [v EXCEPT !.IsSet = (v.Value # Empty)]

MergeVariables(dist, target, userValues) ==
    [i \in 1..Len(dist.Variables) |-> MergeVariable(dist.Variables[i], target, userValues)]

formatConfigBlock(config) ==
    (IF Len(config.Environments) > 0
     THEN <<ConfigEnvironmentsPrefix \o Join(config.Environments, StrComma)>>
     ELSE <<>>)
    \o (IF config.Strict THEN <<ConfigStrictTrue>> ELSE <<>>)

\* WriteFile: the comment is written before the variable at index i (from 0)
CommentBelongsBefore(dist, variables, i, comment) ==
    IF i > 0 /\ i < Len(dist.Variables)
    THEN /\ comment.LineNumber > dist.Variables[i].LineNumber
         /\ comment.LineNumber < variables[i + 1].LineNumber
    ELSE i = 0 /\ comment.LineNumber < variables[i + 1].LineNumber

\* WriteFile: the comment lines written before the variable at index i
CommentsBefore(dist, variables, i) ==
    LET belonging == SelectSeq(dist.Comments,
                               LAMBDA comment : CommentBelongsBefore(dist, variables, i, comment))
    IN  [k \in 1..Len(belonging) |-> CommentPrefix \o belonging[k].Text]

\* WriteFile: the lines of the variable at index i
VariableLines(dist, keep, variables, i) ==
    CommentsBefore(dist, variables, i) \o <<FormatVariable(variables[i + 1], keep)>>

RECURSIVE VariablesLinesFrom(_, _, _, _)
VariablesLinesFrom(dist, keep, variables, i) ==
    IF i >= Len(variables) THEN <<>>
    ELSE VariableLines(dist, keep, variables, i) \o VariablesLinesFrom(dist, keep, variables, i + 1)

\* WriteFile: the lines written to the target path
WriteFile(dist, keep, variables) ==
    (IF dist.Config # Nil THEN formatConfigBlock(dist.Config) \o <<Empty>> ELSE <<>>)
    \o VariablesLinesFrom(dist, keep, variables, 0)

\* handleNonInteractive: the names that are neither optional nor defaulted
Unresolved(variables) ==
    LET open == SelectSeq(variables,
                          LAMBDA v : /\ ~(v.Annotation # Nil /\ v.Annotation.IsOptional)
                                     /\ v.Value = Empty)
    IN  [k \in 1..Len(open) |-> open[k].Name]

\* how generateTarget ends: a nil error, an error, or os.Exit(2) after the list
\* of unresolved names on stderr
ReturnedNil ==
    [err |-> Nil]

ReturnedError(msg) ==
    [err |-> Errorf(msg)]

Exited(names) ==
    [exit |-> 2, listed |-> names]

\* ----------------------------------------------------------------------
\* internal/tui/wizard: the Model and its Update
\* ----------------------------------------------------------------------

\* State (iota)
StatePrompting ==
    0

StateValidating ==
    1

StateComplete ==
    2

StateAborted ==
    3

StateError ==
    4

\* textinput.EchoMode
EchoNormal ==
    "EchoNormal"

EchoPassword ==
    "EchoPassword"

\* textinput.CharLimit as New sets it, capped at the longest text the model types
MaxInput ==
    2

\* the keys whose String() is a single character typed into a text input
Runes ==
    {" ", "5"}

\* the single characters among the keys the sync wizard is given
SyncRunes ==
    {"q", "s", "y", "5"}

\* the key messages the program delivers, by their String()
Keys ==
    {"ctrl+c", "ctrl+d", "enter", "tab", "esc", "left", "right", "down"} \cup Runes

\* textinput.New, focused
NewTextInput ==
    [value |-> Empty, pos |-> 0, EchoMode |-> EchoNormal]

\* textinput.Model.Reset
TextInputReset(ti) ==
    [ti EXCEPT !.value = Empty, !.pos = 0]

\* textinput.Model.SetValue: the cursor goes to the end
TextInputSetValue(ti, s) ==
    [ti EXCEPT !.value = s, !.pos = Len(s)]

\* textinput.Model.Update on a key: a character is inserted at the cursor while
\* the limit allows it, left and right move the cursor, ctrl+d deletes the
\* character after the cursor
TextInputUpdate(ti, key) ==
    IF key \in Runes \cup SyncRunes
    THEN IF Len(ti.value) < MaxInput
         THEN [ti EXCEPT !.value = SubSeq(ti.value, 1, ti.pos) \o <<key>>
                                   \o SubSeq(ti.value, ti.pos + 1, Len(ti.value)),
                         !.pos = ti.pos + 1]
         ELSE ti
    ELSE IF key = "left" THEN [ti EXCEPT !.pos = IF ti.pos > 0 THEN ti.pos - 1 ELSE 0]
    ELSE IF key = "right" THEN [ti EXCEPT !.pos = IF ti.pos < Len(ti.value) THEN ti.pos + 1 ELSE ti.pos]
    ELSE IF key = "ctrl+d" /\ ti.pos < Len(ti.value)
    THEN [ti EXCEPT !.value = SubSeq(ti.value, 1, ti.pos) \o SubSeq(ti.value, ti.pos + 2, Len(ti.value))]
    ELSE ti

\* components.NewSelectModel
NewSelectModel(options) ==
    [Options |-> options, Cursor |-> 0, Selected |-> -1]

\* SelectModel.SetOptions
SetOptions(sm, options) ==
    [sm EXCEPT !.Options = options, !.Cursor = 0, !.Selected = -1]

\* SelectModel.Select: the first option equal to the value
RECURSIVE SelectFrom(_, _, _)
SelectFrom(sm, value, i) ==
    IF i >= Len(sm.Options) THEN sm
    ELSE IF sm.Options[i + 1] = value THEN [sm EXCEPT !.Selected = i, !.Cursor = i]
    ELSE SelectFrom(sm, value, i + 1)

Select(sm, value) ==
    SelectFrom(sm, value, 0)

\* SelectModel.Update on a key (the model is always focused)
SelectUpdate(sm, key) ==
    IF key \in {"up", "k"} THEN [sm EXCEPT !.Cursor = IF sm.Cursor > 0 THEN sm.Cursor - 1 ELSE sm.Cursor]
    ELSE IF key \in {"down", "j"}
    THEN [sm EXCEPT !.Cursor = IF sm.Cursor < Len(sm.Options) - 1 THEN sm.Cursor + 1 ELSE sm.Cursor]
    ELSE IF key \in {"enter", " "} THEN [sm EXCEPT !.Selected = sm.Cursor]
    ELSE IF key = "home" THEN [sm EXCEPT !.Cursor = 0]
    ELSE IF key = "end" THEN [sm EXCEPT !.Cursor = Len(sm.Options) - 1]
    ELSE sm

\* SelectModel.Value
SelectValue(sm) ==
    IF sm.Selected >= 0 /\ sm.Selected < Len(sm.Options) THEN sm.Options[sm.Selected + 1] ELSE Empty

\* SelectModel.HasSelection
HasSelection(sm) ==
    sm.Selected >= 0

\* wizard.New
New(variables) ==
    [Variables |-> variables,
     CurrentIndex |-> 0,
     Values |-> <<>>,
     State |-> StatePrompting,
     Error |-> Nil,
     textInput |-> NewTextInput,
     selectModel |-> NewSelectModel(<<>>),
     useSelect |-> FALSE,
     hasUnsavedChanges |-> FALSE,
     showExitPrompt |-> FALSE,
     exitChoice |-> 0]

\* Model.CurrentVariable
CurrentVariable(w) ==
    IF w.CurrentIndex >= Len(w.Variables) THEN Nil ELSE w.Variables[w.CurrentIndex + 1]

\* setupCurrentInput: the options of an enum, each trimmed
EnumOptions(v) ==
    LET options == Split(GetConstraint(v.Annotation, StrOptions), <<",">>)
    IN  [i \in 1..Len(options) |-> TrimSpace(options[i])]

\* setupCurrentInput, on the Model the pointer receiver points to
setupCurrentInput(w) ==
    LET v == CurrentVariable(w)
        reset == [w EXCEPT !.textInput = TextInputReset(@)]
    IN  IF v = Nil THEN w
        ELSE IF v.Annotation # Nil /\ v.Annotation.Type = TypeEnum
        THEN [reset EXCEPT !.useSelect = TRUE,
                           !.selectModel = IF v.Value # Empty
                                           THEN Select(SetOptions(@, EnumOptions(v)), v.Value)
                                           ELSE SetOptions(@, EnumOptions(v))]
        ELSE [reset EXCEPT !.useSelect = FALSE,
                           !.textInput = [(IF v.Value # Empty THEN TextInputSetValue(@, v.Value) ELSE @)
                                          EXCEPT !.EchoMode = IF v.Annotation # Nil /\ v.Annotation.IsSecret
                                                              THEN EchoPassword ELSE EchoNormal]]

\* Model.Init has a value receiver: setupCurrentInput configures the copy Init was
\* called on, and the Model the program holds stays as New built it
ModelInit(w) ==
    LET copy == setupCurrentInput(w)
    IN  w

\* what Update returns: the Model, and whether the command is tea.Quit
Continue(w) ==
    [m |-> w, quit |-> FALSE]

Quit(w) ==
    [m |-> w, quit |-> TRUE]

\* nextVariable
nextVariable(w) ==
    LET next == [w EXCEPT !.CurrentIndex = @ + 1]
    IN  IF next.CurrentIndex >= Len(next.Variables)
        THEN Quit([next EXCEPT !.State = StateComplete])
        ELSE Continue(setupCurrentInput(next))

\* submitInput storing the value without validating it
submitInputUnchecked(w) ==
    LET v == CurrentVariable(w)
        value == IF w.useSelect THEN SelectValue(w.selectModel) ELSE w.textInput.value
    IN  IF v = Nil THEN Quit([w EXCEPT !.State = StateComplete])
        ELSE IF w.useSelect /\ ~HasSelection(w.selectModel) THEN Continue(w)
        ELSE nextVariable([w EXCEPT !.Values = (v.Name :> value) @@ @,
                                    !.hasUnsavedChanges = TRUE,
                                    !.Error = Nil,
                                    !.State = StatePrompting])

\* submitInput
submitInput(w) ==
    LET v == CurrentVariable(w)
        value == IF w.useSelect THEN SelectValue(w.selectModel) ELSE w.textInput.value
    IN  IF v = Nil THEN Quit([w EXCEPT !.State = StateComplete])
        ELSE IF w.useSelect /\ ~HasSelection(w.selectModel) THEN Continue(w)
        ELSE IF v.Annotation # Nil /\ ValidateValue(value, v.Annotation) # Nil
        THEN Continue([w EXCEPT !.Error = ValidateValue(value, v.Annotation),
                                !.State = StateValidating])
        ELSE nextVariable([w EXCEPT !.Values = (v.Name :> value) @@ @,
                                    !.hasUnsavedChanges = TRUE,
                                    !.Error = Nil,
                                    !.State = StatePrompting])

\* handleExitPrompt; the escape key's String() is "esc", which no case names
handleExitPrompt(w, key) ==
    IF key \in {"left", "h"} THEN Continue([w EXCEPT !.exitChoice = 0])
    ELSE IF key \in {"right", "l"} THEN Continue([w EXCEPT !.exitChoice = 1])
    ELSE IF key = "enter"
    THEN IF w.exitChoice = 0
         THEN Quit([w EXCEPT !.State = StateAborted, !.Values = <<>>])
         ELSE Quit([w EXCEPT !.State = StateComplete])
    ELSE IF key = "escape" THEN Continue([w EXCEPT !.showExitPrompt = FALSE])
    ELSE Continue(w)

\* Update: the input components take the message
UpdateInput(w, key) ==
    IF w.useSelect
    THEN Continue([w EXCEPT !.selectModel = SelectUpdate(@, key)])
    ELSE Continue([w EXCEPT !.textInput = TextInputUpdate(@, key)])

\* Update on ctrl+c without the exit prompt: the wizard is aborted at once
CtrlCAbortsAtOnce(w) ==
    Quit([w EXCEPT !.State = StateAborted])

\* Update on ctrl+c
CtrlC(w) ==
    IF w.hasUnsavedChanges
    THEN Continue([w EXCEPT !.showExitPrompt = TRUE])
    ELSE Quit([w EXCEPT !.State = StateAborted])

\* Update on ctrl+d skipping the current variable whether it is optional or not
CtrlDSkipsAny(w) ==
    LET v == CurrentVariable(w)
    IN  IF v # Nil /\ v.Annotation # Nil
        THEN nextVariable([w EXCEPT !.Values = (v.Name :> Empty) @@ @, !.hasUnsavedChanges = TRUE])
        ELSE UpdateInput(w, "ctrl+d")

\* Update on ctrl+d: an optional variable is skipped with the empty value
CtrlD(w) ==
    LET v == CurrentVariable(w)
    IN  IF v # Nil /\ v.Annotation # Nil /\ v.Annotation.IsOptional
        THEN nextVariable([w EXCEPT !.Values = (v.Name :> Empty) @@ @, !.hasUnsavedChanges = TRUE])
        ELSE UpdateInput(w, "ctrl+d")

\* Update on tab: the default fills an empty text input
Tab(w) ==
    LET v == CurrentVariable(w)
    IN  IF v # Nil /\ v.Value # Empty /\ w.textInput.value = Empty
        THEN UpdateInput([w EXCEPT !.textInput = TextInputSetValue(@, v.Value)], "tab")
        ELSE UpdateInput(w, "tab")

\* Model.Update on a tea.KeyMsg
Update(w, key) ==
    IF w.showExitPrompt THEN handleExitPrompt(w, key)
    ELSE IF key = "ctrl+c" THEN CtrlC(w)
    ELSE IF key = "ctrl+d" THEN CtrlD(w)
    ELSE IF key = "enter" THEN submitInput(w)
    ELSE IF key = "tab" THEN Tab(w)
    ELSE UpdateInput(w, key)

\* Model.IsAborted
IsAborted(w) ==
    w.State = StateAborted

\* Model.GetValues
GetValues(w) ==
    w.Values

\* ----------------------------------------------------------------------
\* generateTarget on one target: the prompt list, the non-interactive branch,
\* the wizard's program, the merge and the write
\* ----------------------------------------------------------------------

\* 'O= #prompt:O|string;optional'
GenOptional ==
    <<"O", "=", " ", "#", "p", "r", "o", "m", "p", "t", ":", "O", "|", "s", "t", "r", "i", "n",
      "g", ";", "o", "p", "t", "i", "o", "n", "a", "l">>

\* '# c'
GenComment ==
    <<"#", " ", "c">>

\* the lines of a distributable to generate from
GenDistLinePool ==
    {DistAInt,
     DistAWord,
     DistCPlain,
     GenOptional,
     GenComment,
     DistStrict}

\* 'O=v'
GenTargetO ==
    <<"O", "=", "v">>

\* the lines of an existing target
GenTargetLinePool ==
    {TgtA5,
     TgtAEmpty,
     TgtAWord,
     GenTargetO,
     TgtC}

\* the file at the target path once WriteFile has written it
FileWith(fileLines) ==
    [lines |-> fileLines]

GenDistFiles ==
    {parseLines(ls).envFile : ls \in SeqsUpTo(GenDistLinePool, MaxDocLines)}

\* the target LoadTarget leaves in the generator: nil when the file does not exist
GenTargetFiles ==
    {Nil} \cup {parseLines(ls).envFile : ls \in SeqsUpTo(GenTargetLinePool, MaxDocLines)}

GenStart ==
    /\ toPrompt = <<>> /\ m = Nil /\ written = Nil /\ genOut = Nil
    /\ CoreIdle /\ TokenIdle /\ LaterIdle

InitGenerate ==
    /\ pc = "generate"
    /\ genDist \in GenDistFiles
    /\ genTarget \in GenTargetFiles
    /\ nonInteractive \in BOOLEAN
    /\ keepAnnotations \in BOOLEAN
    /\ GenStart

\* generateTarget up to the prompt list
PromptList ==
    /\ pc = "generate"
    /\ toPrompt' = GetVariablesToPrompt(genDist, genTarget)
    /\ pc' = "prompted"
    /\ UNCHANGED <<genDist, genTarget, nonInteractive, keepAnnotations, m, written, genOut,
                   coreVars, tokVars, laterVars>>

\* handleNonInteractive with unresolved variables: the list, then os.Exit(2)
NonInteractiveExit ==
    /\ pc = "prompted"
    /\ Len(toPrompt) > 0 /\ nonInteractive
    /\ Unresolved(toPrompt) # <<>>
    /\ genOut' = Exited(Unresolved(toPrompt))
    /\ pc' = "exited"
    /\ UNCHANGED <<genDist, genTarget, nonInteractive, keepAnnotations, toPrompt, m, written,
                   coreVars, tokVars, laterVars>>

\* handleNonInteractive with nothing unresolved returns nil, and generateTarget
\* returns what it returned
NonInteractiveReturn ==
    /\ pc = "prompted"
    /\ Len(toPrompt) > 0 /\ nonInteractive
    /\ Unresolved(toPrompt) = <<>>
    /\ genOut' = ReturnedNil
    /\ pc' = "returned"
    /\ UNCHANGED <<genDist, genTarget, nonInteractive, keepAnnotations, toPrompt, m, written,
                   coreVars, tokVars, laterVars>>

\* runWizard: wizard.New, and the program that is started on it
StartWizard ==
    /\ pc = "prompted"
    /\ Len(toPrompt) > 0 /\ ~nonInteractive
    /\ m' = New(toPrompt)
    /\ pc' = "wizard"
    /\ UNCHANGED <<genDist, genTarget, nonInteractive, keepAnnotations, toPrompt, written, genOut,
                   coreVars, tokVars, laterVars>>

\* MergeVariables and WriteFile; os.Create succeeds or fails
MergeAndWrite(userValues) ==
    /\ \E created \in BOOLEAN :
          IF created
          THEN /\ written' = FileWith(WriteFile(genDist, keepAnnotations,
                                                MergeVariables(genDist, genTarget, userValues)))
               /\ genOut' = ReturnedNil
          ELSE /\ written' = written
               /\ genOut' = ReturnedError(MsgWriteFailed \o MsgCreateFailed)
    /\ pc' = "returned"
    /\ UNCHANGED <<genDist, genTarget, nonInteractive, keepAnnotations, toPrompt, m,
                   coreVars, tokVars, laterVars>>

\* nothing to prompt: the merge and the write with no user values
WriteUnprompted ==
    /\ pc = "prompted"
    /\ Len(toPrompt) = 0
    /\ MergeAndWrite(<<>>)

NextGenerate ==
    \/ PromptList
    \/ NonInteractiveExit
    \/ NonInteractiveReturn
    \/ StartWizard
    \/ WriteUnprompted

SpecGenerate ==
    InitGenerate /\ [][NextGenerate]_vars

\* the test of one variable, with the existing value validated against the annotation
NeedsPromptValidated(v, target) ==
    /\ v.Annotation # Nil
    /\ v.Value = Empty
    /\ \/ ExistingValue(target, v.Name) = Empty
       \/ ValidateValue(ExistingValue(target, v.Name), v.Annotation) # Nil

\* the dist variables with an annotation and no default that have no valid
\* value in the target: none, an empty one, or one ValidateValue rejects
WithoutValidValue ==
    SelectSeq(genDist.Variables, LAMBDA v : NeedsPromptValidated(v, genTarget))

\* C16: GetVariablesToPrompt returns, in the distributable's order, exactly the
\* annotated variables that do not already have a valid value: a variable whose
\* value in the target is non-empty and fails ValidateValue against the
\* annotation is in the list, one whose value in the target is valid is not.
C16_PromptsMissingOrInvalid ==
    pc # "generate" => toPrompt = WithoutValidValue

\* the generate run is over
GenerateOver ==
    pc \in {"returned", "exited"}

\* C17: in non-interactive mode a run over has either failed with the list of
\* the variables without value and written nothing, or returned nil with the
\* merged variables written to the target; the wizard is never started.
C17_NonInteractiveOutcomes ==
    nonInteractive =>
        /\ pc # "wizard" /\ m = Nil
        /\ GenerateOver =>
              \/ /\ genOut \in {Exited(Unresolved(toPrompt)),
                                 ReturnedError(MsgWriteFailed \o MsgCreateFailed)}
                 /\ written = Nil
              \/ /\ genOut = ReturnedNil
                 /\ written = FileWith(WriteFile(genDist, keepAnnotations,
                                                 MergeVariables(genDist, genTarget, <<>>)))

\* ----------------------------------------------------------------------
\* the wizard's program: Init, then one Update per key message, then
\* runWizard's return and the rest of generateTarget
\* ----------------------------------------------------------------------

\* 'S= #prompt:S|string;secret'
WizardSecret ==
    <<"S", "=", " ", "#", "p", "r", "o", "m", "p", "t", ":", "S", "|", "s", "t", "r", "i", "n",
      "g", ";", "s", "e", "c", "r", "e", "t">>

\* 'E= #prompt:E|enum;options:x, y'
WizardEnum ==
    <<"E", "=", " ", "#", "p", "r", "o", "m", "p", "t", ":", "E", "|", "e", "n", "u", "m", ";",
      "o", "p", "t", "i", "o", "n", "s", ":", "x", ",", " ", "y">>

\* the lines of a distributable the wizard is run for
WizardDistLinePool ==
    {WizardSecret,
     DistAInt,
     GenOptional,
     WizardEnum,
     DistCPlain}

\* distributables of one line and of two lines
WizardDistFiles ==
    {parseLines(<<a>>).envFile : a \in WizardDistLinePool}
    \cup {parseLines(<<a, b>>).envFile : a, b \in WizardDistLinePool}

\* no target, or one that holds A
WizardTargetFiles ==
    {Nil, parseLines(<<TgtA5>>).envFile}

\* the state runWizard starts the program in
InitWizard ==
    /\ pc = "wizard"
    /\ genDist \in WizardDistFiles
    /\ genTarget \in WizardTargetFiles
    /\ nonInteractive = FALSE
    /\ keepAnnotations = FALSE
    /\ toPrompt = GetVariablesToPrompt(genDist, genTarget)
    /\ Len(toPrompt) > 0
    /\ m = New(toPrompt)
    /\ written = Nil /\ genOut = Nil
    /\ CoreIdle /\ TokenIdle /\ LaterIdle

\* the program calls Init on the Model before the first message
ProgramInit ==
    /\ pc = "wizard"
    /\ m' = ModelInit(m)
    /\ pc' = "awaiting"
    /\ UNCHANGED <<genDist, genTarget, nonInteractive, keepAnnotations, toPrompt, written, genOut,
                   coreVars, tokVars, laterVars>>

\* the program delivers a key message to Update and keeps the Model returned
KeyMsg ==
    /\ pc = "awaiting"
    /\ \E key \in Keys :
          /\ m' = Update(m, key).m
          /\ pc' = IF Update(m, key).quit THEN "quit" ELSE "awaiting"
    /\ UNCHANGED <<genDist, genTarget, nonInteractive, keepAnnotations, toPrompt, written, genOut,
                   coreVars, tokVars, laterVars>>

\* runWizard returns nil values for an aborted wizard: generateTarget fails
WizardAborted ==
    /\ pc = "quit"
    /\ IsAborted(m)
    /\ genOut' = ReturnedError(MsgAborted)
    /\ pc' = "returned"
    /\ UNCHANGED <<genDist, genTarget, nonInteractive, keepAnnotations, toPrompt, m, written,
                   coreVars, tokVars, laterVars>>

\* runWizard returns the collected values: the merge and the write
WizardValues ==
    /\ pc = "quit"
    /\ ~IsAborted(m)
    /\ MergeAndWrite(GetValues(m))

NextWizard ==
    \/ ProgramInit
    \/ KeyMsg
    \/ WizardAborted
    \/ WizardValues

SpecWizard ==
    InitWizard /\ [][NextWizard]_vars

\* the wizard awaits input for its current variable
AwaitingInput ==
    pc = "awaiting" /\ ~m.showExitPrompt /\ CurrentVariable(m) # Nil

\* the current variable is secret
CurrentIsSecret ==
    CurrentVariable(m).Annotation # Nil /\ CurrentVariable(m).Annotation.IsSecret

\* C18: whenever the wizard awaits input for a variable whose annotation is
\* secret, the text input is in password echo mode, at every position of the
\* variable in the list, the first included.
C18_SecretHidden ==
    (AwaitingInput /\ CurrentIsSecret) => m.textInput.EchoMode = EchoPassword

\* the names of the variables completed so far: those before the current one
CompletedNames ==
    {m.Variables[i].Name : i \in 1..m.CurrentIndex}

\* the value written for a variable of the distributable: the collected one,
\* else the one the target holds, else the default
ExpectedValue(v) ==
    IF v.Name \in CompletedNames THEN m.Values[v.Name]
    ELSE IF ExistingValue(genTarget, v.Name) # Empty THEN ExistingValue(genTarget, v.Name)
    ELSE v.Value

\* the names of the variables the written file holds
WrittenNames ==
    LET variables == parseLines(written.lines).envFile.Variables
    IN  {variables[i].Name : i \in 1..Len(variables)}

\* ctrl+c outside the exit prompt: with a collected value the prompt is shown and
\* the wizard goes on, without one the wizard is aborted and quits
CtrlCPrompts ==
    (pc = "awaiting" /\ ~m.showExitPrompt) =>
        Update(m, "ctrl+c") = IF DOMAIN m.Values # {}
                              THEN Continue([m EXCEPT !.showExitPrompt = TRUE])
                              ELSE Quit([m EXCEPT !.State = StateAborted])

\* the exit prompt is left only by enter: discard aborts and clears the values,
\* save completes and keeps them
PromptChoice ==
    (pc = "awaiting" /\ m.showExitPrompt) =>
        \A key \in Keys :
            Update(m, key).quit =>
                /\ key = "enter"
                /\ Update(m, key).m = IF m.exitChoice = 0
                                      THEN [m EXCEPT !.State = StateAborted, !.Values = <<>>]
                                      ELSE [m EXCEPT !.State = StateComplete]

\* an aborted wizard, at once or by discard: no value is kept, nothing is
\* written, generateTarget fails
AbortedWritesNothing ==
    (pc = "returned" /\ IsAborted(m)) =>
        /\ m.Values = <<>>
        /\ written = Nil
        /\ genOut = ReturnedError(MsgAborted)

\* the wizard was ended by save in the exit prompt, and generateTarget is over
SavedFromPrompt ==
    pc = "returned" /\ m.showExitPrompt /\ m.State = StateComplete

Flagged(name) ==
    \E i \in 1..Len(result.Errors) : result.Errors[i].Variable = name

\* C20: when validateFile has returned, with strict mode on (by the flag or by
\* the distributable's config) every variable of the distributable without
\* annotation is flagged, present in the target or not; with strict mode off no
\* variable without annotation is flagged.
C20_StrictFlagsUnannotated ==
    (pc = "returned" /\ entry = "validateFile") =>
        \A i \in 1..Len(distFile.Variables) :
            distFile.Variables[i].Annotation = Nil =>
                (Flagged(distFile.Variables[i].Name) <=> strict)

\* ----------------------------------------------------------------------
\* internal/inspector and the inspect command with --sync --non-interactive
\* ----------------------------------------------------------------------

\* 'failed to update target file: '
MsgUpdateTargetFailed ==
    <<"f", "a", "i", "l", "e", "d", " ", "t", "o", " ", "u", "p", "d", "a", "t", "e", " ", "t",
      "a", "r", "g", "e", "t", " ", "f", "i", "l", "e", ":", " ">>

\* Inspect's loop body without the continue after an invalid value
InspectStepNoContinue(r, distVar, target) ==
    LET targetVar == GetVariable(target, distVar.Name)
    IN  IF targetVar = Nil
        THEN [r EXCEPT !.MissingInEnv = Append(@, distVar)]
        ELSE IF /\ distVar.Annotation # Nil
                /\ ValidateValue(targetVar.Value, distVar.Annotation) # Nil
        THEN [r EXCEPT !.InvalidValues =
                  Append(@, [Variable |-> distVar.Name,
                             LineNumber |-> targetVar.LineNumber,
                             Message |-> ValidateValue(targetVar.Value, distVar.Annotation).msg,
                             Type |-> 0]),
                       !.ValidCount = @ + 1]
        ELSE [r EXCEPT !.ValidCount = @ + 1]

\* Inspect: the body of the loop over the distributable's variables. The
\* ValidationError is built without a Type: the field holds ErrorType's zero value.
InspectStep(r, distVar, target) ==
    LET targetVar == GetVariable(target, distVar.Name)
    IN  IF targetVar = Nil
        THEN [r EXCEPT !.MissingInEnv = Append(@, distVar)]
        ELSE IF /\ distVar.Annotation # Nil
                /\ ValidateValue(targetVar.Value, distVar.Annotation) # Nil
        THEN [r EXCEPT !.InvalidValues =
                  Append(@, [Variable |-> distVar.Name,
                             LineNumber |-> targetVar.LineNumber,
                             Message |-> ValidateValue(targetVar.Value, distVar.Annotation).msg,
                             Type |-> 0])]
        ELSE [r EXCEPT !.ValidCount = @ + 1]

\* Inspect: the loop over the distributable's variables
RECURSIVE InspectLoop(_, _, _)
InspectLoop(r, distVariables, target) ==
    IF distVariables = <<>> THEN r
    ELSE InspectLoop(InspectStep(r, Head(distVariables), target), Tail(distVariables), target)

\* the names of a sequence of variables
NamesOf(variables) ==
    {variables[i].Name : i \in 1..Len(variables)}

\* Inspect: distVarNames
DistVarNames(dist) ==
    {dist.Variables[i].Name : i \in 1..Len(dist.Variables)}

\* Inspect
Inspect(dist, target) ==
    [InspectLoop([MissingInEnv |-> <<>>, ExtraInEnv |-> <<>>, InvalidValues |-> <<>>,
                  ValidCount |-> 0],
                 dist.Variables, target)
     EXCEPT !.ExtraInEnv = SelectSeq(target.Variables,
                                     LAMBDA targetVar : targetVar.Name \notin DistVarNames(dist))]

\* InspectionResult.HasDiscrepancies
HasDiscrepancies(r) ==
    Len(r.MissingInEnv) > 0 \/ Len(r.ExtraInEnv) > 0 \/ Len(r.InvalidValues) > 0

\* handleNonInteractiveSync: updates; an optional variable gets the empty value,
\* another one with a default gets the default
AutoResolve(missing) ==
    LET resolved == SelectSeq(missing,
                              LAMBDA v : \/ v.Annotation # Nil /\ v.Annotation.IsOptional
                                         \/ v.Value # Empty)
    IN  [name \in {resolved[i].Name : i \in 1..Len(resolved)} |->
            LET v == CHOOSE v \in {resolved[i] : i \in 1..Len(resolved)} : v.Name = name
            IN  IF v.Annotation # Nil /\ v.Annotation.IsOptional THEN Empty ELSE v.Value]

\* handleNonInteractiveSync: unresolvable
Unresolvable(missing) ==
    LET open == SelectSeq(missing,
                          LAMBDA v : /\ ~(v.Annotation # Nil /\ v.Annotation.IsOptional)
                                     /\ v.Value = Empty)
    IN  [k \in 1..Len(open) |-> open[k].Name]

\* updateTargetFile: the lines of the target's variables that are kept; an update
\* is deleted from the map once written, so it reaches the first variable of its name
KeptLines(target, updates, removes) ==
    LET kept == SelectSeq(target.Variables, LAMBDA v : v.Name \notin removes)
    IN  [i \in 1..Len(kept) |->
            kept[i].Name \o <<"=">>
            \o (IF /\ kept[i].Name \in DOMAIN updates
                     /\ \A j \in 1..(i - 1) : kept[j].Name # kept[i].Name
                  THEN updates[kept[i].Name] ELSE kept[i].Value)]

\* the orders a range over a Go map can take its keys in
KeyOrders(keys) ==
    {order \in [1..Cardinality(keys) -> keys] :
        \A i, j \in 1..Cardinality(keys) : i # j => order[i] # order[j]}

\* updateTargetFile: the texts the file can hold; the updates for names that
\* the target does not hold are written in the map's order
updateTargetFile(target, updates, removes) ==
    LET writtenNames == {target.Variables[i].Name : i \in 1..Len(target.Variables)} \ removes
        left == DOMAIN updates \ writtenNames
    IN  {KeptLines(target, updates, removes)
         \o [i \in 1..Cardinality(left) |-> order[i] \o <<"=">> \o updates[order[i]]] :
         order \in KeyOrders(left)}

\* 'O=v #prompt:O|string;optional'
InspectOptionalDefault ==
    <<"O", "=", "v", " ", "#", "p", "r", "o", "m", "p", "t", ":", "O", "|", "s", "t", "r", "i",
      "n", "g", ";", "o", "p", "t", "i", "o", "n", "a", "l">>

\* the lines of a distributable to inspect against
InspectDistLinePool ==
    {DistAInt,
     DistAWord,
     DistCPlain,
     GenOptional,
     DistBPattern,
     InspectOptionalDefault}

\* 'X=1'
InspectExtra ==
    <<"X", "=", "1">>

\* the lines of a target to inspect
InspectTargetLinePool ==
    {TgtA5,
     TgtAWord,
     TgtC,
     GenTargetO,
     InspectExtra}

InspectDistFiles ==
    {parseLines(ls).envFile : ls \in SeqsUpTo(InspectDistLinePool, MaxDocLines)}

InspectTargetFiles ==
    {parseLines(ls).envFile : ls \in SeqsUpTo(InspectTargetLinePool, MaxDocLines)}

\* what the inspect specifications leave alone
InspectFrame ==
    UNCHANGED <<inspDist, inspTarget, coreVars, tokVars, genVars, mergeVars, variableVars>>

\* runInspect with both files parsed
InitInspect ==
    /\ pc = "inspect"
    /\ inspDist \in InspectDistFiles
    /\ inspTarget \in InspectTargetFiles
    /\ inspResult = Nil /\ inspFile = Nil /\ inspOut = Nil /\ syncModel = Nil
    /\ CoreIdle /\ TokenIdle /\ GenIdle /\ MergeIdle /\ VariableIdle

\* runInspect: inspector.Inspect
RunInspect ==
    /\ pc = "inspect"
    /\ inspResult' = Inspect(inspDist, inspTarget)
    /\ pc' = "inspected"
    /\ UNCHANGED <<inspFile, inspOut, syncModel>>
    /\ InspectFrame

\* no discrepancy: the report, and nil
ReportClean ==
    /\ pc = "inspected"
    /\ ~HasDiscrepancies(inspResult)
    /\ inspOut' = ReturnedNil
    /\ pc' = "returned"
    /\ UNCHANGED <<inspResult, inspFile, syncModel>>
    /\ InspectFrame

\* handleNonInteractiveSync with unresolvable variables: the list, then os.Exit(2)
SyncExit ==
    /\ pc = "inspected"
    /\ HasDiscrepancies(inspResult)
    /\ Unresolvable(inspResult.MissingInEnv) # <<>>
    /\ inspOut' = Exited(Unresolvable(inspResult.MissingInEnv))
    /\ pc' = "exited"
    /\ UNCHANGED <<inspResult, inspFile, syncModel>>
    /\ InspectFrame

\* handleNonInteractiveSync with every missing variable resolved: the target
\* is rewritten when there are updates; os.Create succeeds or fails
SyncUpdate ==
    /\ pc = "inspected"
    /\ HasDiscrepancies(inspResult)
    /\ Unresolvable(inspResult.MissingInEnv) = <<>>
    /\ LET updates == AutoResolve(inspResult.MissingInEnv)
       IN  IF DOMAIN updates = {}
           THEN inspFile' = inspFile /\ inspOut' = ReturnedNil
           ELSE \/ /\ inspFile' \in {FileWith(text) : text \in updateTargetFile(inspTarget, updates, {})}
                   /\ inspOut' = ReturnedNil
                \/ /\ inspFile' = inspFile
                   /\ inspOut' = ReturnedError(MsgUpdateTargetFailed)
    /\ pc' = "returned"
    /\ UNCHANGED <<inspResult, syncModel>>
    /\ InspectFrame

NextInspect ==
    \/ RunInspect
    \/ ReportClean
    \/ SyncExit
    \/ SyncUpdate

SpecInspect ==
    InitInspect /\ [][NextInspect]_vars

\* the variable is missing in the target, optional, and has a default
MissingOptionalWithDefault(v) ==
    /\ GetVariable(inspTarget, v.Name) = Nil
    /\ v.Annotation # Nil /\ v.Annotation.IsOptional
    /\ v.Value # Empty

\* the variable is missing in the target and cannot be resolved without input
MissingUnresolvable(v) ==
    /\ GetVariable(inspTarget, v.Name) = Nil
    /\ ~(v.Annotation # Nil /\ v.Annotation.IsOptional)
    /\ v.Value = Empty

\* C21: inspect --sync in non-interactive mode resolves every missing optional
\* variable that has a default in the distributable to that default; and when a
\* missing required variable cannot be resolved, the command exits with the
\* list of all such variables and the target file is left as it was.
C21_AutoResolveDefaults ==
    pc \in {"returned", "exited"} =>
        /\ (\E i \in 1..Len(inspDist.Variables) : MissingUnresolvable(inspDist.Variables[i])) =>
              /\ inspOut = Exited(LET open == SelectSeq(inspDist.Variables, MissingUnresolvable)
                                    IN  [k \in 1..Len(open) |-> open[k].Name])
              /\ inspFile = Nil
        /\ (inspOut = ReturnedNil /\ inspFile # Nil) =>
              \A i \in 1..Len(inspDist.Variables) :
                  MissingOptionalWithDefault(inspDist.Variables[i]) =>
                      \E k \in 1..Len(inspFile.lines) :
                          inspFile.lines[k] = inspDist.Variables[i].Name \o <<"=">>
                                              \o inspDist.Variables[i].Value

\* the value a submission would take from the input in use
SubmittedValue(w) ==
    IF w.useSelect THEN SelectValue(w.selectModel) ELSE w.textInput.value

\* enter would submit a value: no exit prompt, a current variable, and a
\* selection when the select list is in use
Submits(w) ==
    /\ ~w.showExitPrompt
    /\ CurrentVariable(w) # Nil
    /\ w.useSelect => HasSelection(w.selectModel)

\* the value the input holds passes the current variable's validation
SubmissionValid(w) ==
    ValidateValue(SubmittedValue(w), CurrentVariable(w).Annotation) = Nil

\* the current variable is optional
CurrentIsOptional(w) ==
    /\ CurrentVariable(w) # Nil
    /\ CurrentVariable(w).Annotation # Nil
    /\ CurrentVariable(w).Annotation.IsOptional

\* what one key does to the wizard in state w
ProgressionOn(w, key) ==
    LET n == Update(w, key).m
        advanced == n.CurrentIndex = w.CurrentIndex + 1
        validSubmit == key = "enter" /\ Submits(w) /\ SubmissionValid(w)
        skip == key = "ctrl+d" /\ ~w.showExitPrompt /\ CurrentIsOptional(w)
    IN  /\ n.CurrentIndex \in {w.CurrentIndex, w.CurrentIndex + 1}
        /\ advanced <=> (validSubmit \/ skip)
        /\ validSubmit => n.Values[CurrentVariable(w).Name] = SubmittedValue(w)
        /\ (key = "enter" /\ Submits(w) /\ ~SubmissionValid(w)) =>
              /\ n.CurrentIndex = w.CurrentIndex
              /\ n.Error = ValidateValue(SubmittedValue(w), CurrentVariable(w).Annotation)
              /\ n.State = StateValidating
              /\ ~Update(w, key).quit
        /\ (advanced /\ ~CurrentIsOptional(w)) => validSubmit
        /\ (n.State = StateComplete /\ w.State # StateComplete) =>
              \/ advanced /\ n.CurrentIndex >= Len(n.Variables)
              \/ w.showExitPrompt /\ key = "enter" /\ w.exitChoice = 1

\* C22: in the generate wizard the current index never decreases; it grows by
\* exactly one exactly when the submitted value passes validation or ctrl+d is
\* pressed on an optional variable; a submission that fails validation leaves
\* the index where it is and sets the error; a variable that is not optional
\* is passed only by a valid submission; and the state becomes Complete only
\* by advancing past the last variable or by choosing save at the exit prompt.
C22_WizardProgression ==
    pc = "awaiting" => \A key \in Keys : ProgressionOn(m, key)

\* the wizard shows the error of a rejected submission for a variable that is
\* not the first one, so an earlier variable has been passed
C22_Witness ==
    /\ pc = "awaiting"
    /\ m.CurrentIndex > 0
    /\ m.State = StateValidating
    /\ m.Error # Nil
    /\ ~CurrentIsOptional(m)

\* ----------------------------------------------------------------------
\* Generator.MergeVariables on its own
\* ----------------------------------------------------------------------

\* '7'
UserSeven ==
    <<"7">>

\* the lines of the distributable and of the target to merge
MergeDistLinePool ==
    {DistAInt, DistAWord, GenOptional, DistCPlain}

MergeTargetLinePool ==
    {TgtA5, TgtAEmpty, GenTargetO, InspectExtra}

MergeDistFiles ==
    {parseLines(ls).envFile : ls \in SeqsUpTo(MergeDistLinePool, MaxDocLines)}

\* no target file, or one of up to MaxDocLines lines
MergeTargetFiles ==
    {Nil} \cup {parseLines(ls).envFile : ls \in SeqsUpTo(MergeTargetLinePool, MaxDocLines)}

\* the user's values: A is a name of the distributable and of the target, X of
\* the target only
UserValueMaps ==
    UNION {[names -> {Empty, UserSeven}] : names \in SUBSET {<<"A">>, <<"X">>}}

\* a Generator built by New(distFile, targetFile), and the values to merge
InitMerge ==
    /\ pc = "merge"
    /\ genDist \in MergeDistFiles
    /\ genTarget \in MergeTargetFiles
    /\ givenValues \in UserValueMaps
    /\ merged = <<>>
    /\ nonInteractive = FALSE /\ keepAnnotations = FALSE
    /\ toPrompt = <<>> /\ m = Nil /\ written = Nil /\ genOut = Nil
    /\ CoreIdle /\ TokenIdle /\ VariableIdle /\ InspIdle

\* g.MergeVariables(userValues)
CallMergeVariables ==
    /\ pc = "merge"
    /\ merged' = MergeVariables(genDist, genTarget, givenValues)
    /\ pc' = "merged"
    /\ UNCHANGED <<genVars, givenValues, coreVars, tokVars, variableVars, inspVars>>

NextMerge ==
    CallMergeVariables

SpecMerge ==
    InitMerge /\ [][NextMerge]_vars

\* the value the stated priority gives the variable: the target's non-empty
\* value, else the user's value, else the default of the distributable
TargetFirstValue(v) ==
    IF ExistingValue(genTarget, v.Name) # Empty THEN ExistingValue(genTarget, v.Name)
    ELSE IF v.Name \in DOMAIN givenValues THEN givenValues[v.Name]
    ELSE v.Value

\* C23: MergeVariables gives every variable of the distributable the target's
\* value when the target holds a non-empty value for the name, otherwise the
\* user's value when there is one, otherwise the default of the distributable;
\* with the name in both the target and the user's values the target wins.
C23_TargetValueFirst ==
    pc = "merged" =>
        \A i \in 1..Len(genDist.Variables) :
            merged[i].Value = TargetFirstValue(genDist.Variables[i])

\* what MergeVariables returned for the inputs it was given
MergedKeepsAllButValues ==
    /\ Len(merged') = Len(genDist.Variables)
    /\ \A i \in 1..Len(genDist.Variables) :
          /\ merged'[i].Name = genDist.Variables[i].Name
          /\ merged'[i].Annotation = genDist.Variables[i].Annotation
          /\ merged'[i].LineNumber = genDist.Variables[i].LineNumber
          /\ [merged'[i] EXCEPT !.Value = genDist.Variables[i].Value,
                                !.IsSet = genDist.Variables[i].IsSet] = genDist.Variables[i]
    /\ NamesOf(merged') \subseteq NamesOf(genDist.Variables)
    /\ genDist' = genDist /\ genTarget' = genTarget /\ givenValues' = givenValues

\* C24: MergeVariables returns one variable for each variable of the
\* distributable, in its order, equal to it in everything but Value and IsSet;
\* a name that only the target or only the user's values hold is not in the
\* result; the distributable, the target and the user's values are as before.
C24_MergeChangesOnlyValues ==
    [][pc' = "merged" => MergedKeepsAllButValues]_vars

\* a merge of two variables where the target and the user's values hold a name
\* the distributable does not, and a value was taken from the target
C24_Witness ==
    /\ pc = "merged"
    /\ Len(merged) = 2
    /\ genTarget # Nil
    /\ <<"X">> \in NamesOf(genTarget.Variables) \cap DOMAIN givenValues
    /\ \E i \in 1..2 : /\ merged[i].Value # genDist.Variables[i].Value
                        /\ merged[i].Value = ExistingValue(genTarget, merged[i].Name)

\* C25: in every state of the generate wizard each entry of Values passes
\* ValidateValue against the annotation of the variable of that name; the
\* entry of a skipped optional variable is the empty value, which passes.
C25_StoredValuesValid ==
    m # Nil =>
        \A name \in DOMAIN m.Values :
            \A i \in 1..Len(m.Variables) :
                m.Variables[i].Name = name =>
                    ValidateValue(m.Values[name], m.Variables[i].Annotation) = Nil

\* the wizard holds a submitted value and the empty value of a skipped variable
C25_Witness ==
    /\ m # Nil
    /\ \E submitted, skipped \in DOMAIN m.Values :
          /\ m.Values[submitted] # Empty
          /\ m.Values[skipped] = Empty
          /\ \E i \in 1..Len(m.Variables) : /\ m.Variables[i].Name = skipped
                                           /\ m.Variables[i].Annotation.IsOptional

\* ----------------------------------------------------------------------
\* ValidateVariable on one variable
\* ----------------------------------------------------------------------

\* 'required'
ValRequired ==
    <<"r", "e", "q", "u", "i", "r", "e", "d">>

\* 'ab'
ValAb ==
    <<"a", "b">>

\* 'y'
ValY ==
    <<"y">>

\* 'int'
AnnInt ==
    <<"i", "n", "t">>

\* 'int;min:1;max:10'
AnnIntRange ==
    <<"i", "n", "t", ";", "m", "i", "n", ":", "1", ";", "m", "a", "x", ":", "1", "0">>

\* 'numeric'
AnnNumeric ==
    <<"n", "u", "m", "e", "r", "i", "c">>

\* 'string;pattern:^required$'
AnnPatternRequired ==
    <<"s", "t", "r", "i", "n", "g", ";", "p", "a", "t", "t", "e", "r", "n", ":", "^", "r", "e",
      "q", "u", "i", "r", "e", "d", "$">>

\* 'string;pattern:^a'
AnnPatternA ==
    <<"s", "t", "r", "i", "n", "g", ";", "p", "a", "t", "t", "e", "r", "n", ":", "^", "a">>

\* 'string;minlen:3'
AnnMinlen ==
    <<"s", "t", "r", "i", "n", "g", ";", "m", "i", "n", "l", "e", "n", ":", "3">>

\* 'string;maxlen:1'
AnnMaxlen ==
    <<"s", "t", "r", "i", "n", "g", ";", "m", "a", "x", "l", "e", "n", ":", "1">>

\* 'enum;options:required,y'
AnnEnumRequired ==
    <<"e", "n", "u", "m", ";", "o", "p", "t", "i", "o", "n", "s", ":", "r", "e", "q", "u", "i",
      "r", "e", "d", ",", "y">>

\* 'enum;options:x,y'
AnnEnumXY ==
    <<"e", "n", "u", "m", ";", "o", "p", "t", "i", "o", "n", "s", ":", "x", ",", "y">>

\* 'enum'
AnnEnumBare ==
    <<"e", "n", "u", "m">>

\* 'boolean'
AnnBoolean ==
    <<"b", "o", "o", "l", "e", "a", "n">>

\* 'object'
AnnObject ==
    <<"o", "b", "j", "e", "c", "t">>

\* 'string;optional'
AnnOptional ==
    <<"s", "t", "r", "i", "n", "g", ";", "o", "p", "t", "i", "o", "n", "a", "l">>

\* 'V='
VariableLinePrefix ==
    <<"V", "=">>

\* ' #prompt:P|'
VariablePromptPrefix ==
    <<" ", "#", "p", "r", "o", "m", "p", "t", ":", "P", "|">>

\* the values and the annotations of the variables to validate
VariableValues ==
    {Empty, ValRequired, ValX, ValFive, ValAb, ValY}

VariableAnnotations ==
    {AnnInt,
     AnnIntRange,
     AnnNumeric,
     AnnPatternRequired,
     AnnPatternA,
     AnnMinlen,
     AnnMaxlen,
     AnnEnumRequired,
     AnnEnumXY,
     AnnEnumBare,
     AnnBoolean,
     AnnObject,
     AnnOptional}

\* the variables: each the one variable of a parsed line
VariablePool ==
    {parseLines(<<VariableLinePrefix \o value \o VariablePromptPrefix \o ann>>).envFile.Variables[1] :
        value \in VariableValues, ann \in VariableAnnotations}
    \cup {parseLines(<<VariableLinePrefix \o value>>).envFile.Variables[1] : value \in VariableValues}

InitVariable ==
    /\ pc = "variable"
    /\ vArg \in VariablePool
    /\ vOutcome = Nil
    /\ CoreIdle /\ TokenIdle /\ GenIdle /\ MergeIdle /\ InspIdle

\* ValidateVariable(v)
CallValidateVariable ==
    /\ pc = "variable"
    /\ vOutcome' = ValidateVariable(vArg)
    /\ pc' = "validated"
    /\ UNCHANGED <<vArg, coreVars, tokVars, genVars, mergeVars, inspVars>>

NextVariable ==
    CallValidateVariable

SpecVariable ==
    InitVariable /\ [][NextVariable]_vars

\* C26: a value that is not empty and that ValidateValue rejects is never
\* classified as a missing required value: the error's type is
\* ErrorConstraintViolation or ErrorInvalidType whatever the texts of the
\* value, the pattern and the options are.
C26_NonEmptyNeverMissingRequired ==
    (/\ pc = "validated"
     /\ vArg.Value # Empty
     /\ vArg.Annotation # Nil
     /\ ValidateValue(vArg.Value, vArg.Annotation) # Nil) =>
        /\ vOutcome # Nil
        /\ vOutcome.Type \in {ErrorConstraintViolation, ErrorInvalidType}

\* ----------------------------------------------------------------------
\* internal/tui/sync: the sync wizard
\* ----------------------------------------------------------------------

\* Action (iota)
ActionSkip ==
    0

ActionAdd ==
    1

ActionRemove ==
    2

ActionAddToDist ==
    3

\* State (iota)
SyncStateMissing ==
    0

SyncStateInvalid ==
    1

SyncStateExtra ==
    2

SyncStateAddToDist ==
    3

SyncStateConfirm ==
    4

SyncStateDone ==
    5

SyncStateAborted ==
    6

\* AddToDistStep (iota)
StepType ==
    0

StepPrompt ==
    1

StepOptional ==
    2

StepSecret ==
    3

StepConfirmAdd ==
    4

\* 'Enter '
MsgEnter ==
    <<"E", "n", "t", "e", "r", " ">>

\* 'value required (not optional)'
MsgValueRequiredNotOptional ==
    <<"v", "a", "l", "u", "e", " ", "r", "e", "q", "u", "i", "r", "e", "d", " ", "(", "n", "o",
      "t", " ", "o", "p", "t", "i", "o", "n", "a", "l", ")">>

\* 'value required'
MsgSyncValueRequired ==
    <<"v", "a", "l", "u", "e", " ", "r", "e", "q", "u", "i", "r", "e", "d">>

\* 'failed to update distributable: '
MsgUpdateDistFailed ==
    <<"f", "a", "i", "l", "e", "d", " ", "t", "o", " ", "u", "p", "d", "a", "t", "e", " ", "d",
      "i", "s", "t", "r", "i", "b", "u", "t", "a", "b", "l", "e", ":", " ">>

\* parser.Variable{}: the zero value
ZeroVariable ==
    [Name |-> Empty, Value |-> Empty, LineNumber |-> 0, IsSet |-> FALSE, Annotation |-> Nil]

\* Resolution{...}: the fields not named hold their zero values
Resolution(variable, action, newValue, annotation) ==
    [Variable |-> variable, Action |-> action, NewValue |-> newValue, Annotation |-> annotation]

\* sync.New
SyncModelNew(res, dist, target) ==
    [result |-> res,
     distFile |-> dist,
     targetFile |-> target,
     state |-> IF Len(res.MissingInEnv) # 0 THEN SyncStateMissing
               ELSE IF Len(res.InvalidValues) # 0 THEN SyncStateInvalid
               ELSE IF Len(res.ExtraInEnv) # 0 THEN SyncStateExtra
               ELSE SyncStateConfirm,
     index |-> 0,
     resolutions |-> <<>>,
     textInput |-> NewTextInput,
     menuChoice |-> 0,
     err |-> Nil,
     addToDistStep |-> StepType,
     addToDistVar |-> ZeroVariable,
     inferredType |-> TypeString,
     selectedType |-> 0,
     promptText |-> Empty,
     isOptional |-> FALSE,
     isSecret |-> FALSE]

\* inferType
inferType(v) ==
    LET value == TrimSpace(v)
        lower == ToLower(value)
    IN  IF value = Empty THEN TypeString
        ELSE IF \/ lower \in {<<"t", "r", "u", "e">>, <<"f", "a", "l", "s", "e">>, <<"y", "e", "s">>,
                              <<"n", "o">>, <<"o", "n">>, <<"o", "f", "f">>}
                \/ value \in {<<"1">>, <<"0">>}
        THEN TypeBoolean
        ELSE IF ParseInt(value).ok THEN TypeInt
        ELSE IF ParseFloat(value).ok THEN TypeNumeric
        ELSE IF \/ HasPrefix(value, <<"{">>) /\ HasSuffix(value, <<"}">>)
                \/ HasPrefix(value, <<"[">>) /\ HasSuffix(value, <<"]">>)
        THEN TypeObject
        ELSE TypeString

\* typeToIndex
typeToIndex(t) ==
    CASE t = TypeString -> 0
      [] t = TypeInt -> 1
      [] t = TypeNumeric -> 2
      [] t = TypeBoolean -> 3
      [] t = TypeEnum -> 4
      [] t = TypeObject -> 5
      [] OTHER -> 0

\* indexToType
indexToType(i) ==
    CASE i = 0 -> TypeString
      [] i = 1 -> TypeInt
      [] i = 2 -> TypeNumeric
      [] i = 3 -> TypeBoolean
      [] i = 4 -> TypeEnum
      [] i = 5 -> TypeObject
      [] OTHER -> TypeString

\* advanceState entering the next phase whether it has items or not
advanceStateNoSkip(w) ==
    LET r == [w EXCEPT !.index = 0, !.textInput = TextInputReset(@), !.err = Nil]
    IN  IF r.state = SyncStateMissing THEN Continue([r EXCEPT !.state = SyncStateInvalid])
        ELSE IF r.state = SyncStateInvalid THEN Continue([r EXCEPT !.state = SyncStateExtra])
        ELSE IF r.state = SyncStateExtra THEN Continue([r EXCEPT !.state = SyncStateConfirm])
        ELSE Continue(r)

\* advanceState
RECURSIVE advanceState(_)
advanceState(w) ==
    LET r == [w EXCEPT !.index = 0, !.textInput = TextInputReset(@), !.err = Nil]
    IN  IF r.state = SyncStateMissing
        THEN IF Len(r.result.InvalidValues) = 0
             THEN advanceState([r EXCEPT !.state = SyncStateInvalid])
             ELSE Continue([r EXCEPT !.state = SyncStateInvalid])
        ELSE IF r.state = SyncStateInvalid
        THEN IF Len(r.result.ExtraInEnv) = 0
             THEN advanceState([r EXCEPT !.state = SyncStateExtra])
             ELSE Continue([r EXCEPT !.state = SyncStateExtra])
        ELSE IF r.state = SyncStateExtra
        THEN Continue([r EXCEPT !.state = SyncStateConfirm])
        ELSE Continue(r)

\* handleMissingEnter
handleMissingEnter(w) ==
    IF w.index >= Len(w.result.MissingInEnv) THEN advanceState(w)
    ELSE
    LET v == w.result.MissingInEnv[w.index + 1]
        typed == w.textInput.value
        value == IF typed = Empty /\ v.Value # Empty THEN v.Value ELSE typed
        optional == v.Annotation # Nil /\ v.Annotation.IsOptional
        stored == [w EXCEPT !.resolutions =
                                Append(@, IF value = Empty /\ optional
                                          THEN Resolution(v, ActionSkip, Empty, Nil)
                                          ELSE Resolution(v, ActionAdd, value, Nil)),
                            !.err = Nil,
                            !.index = @ + 1,
                            !.textInput = TextInputReset(@)]
        next == stored.result.MissingInEnv[stored.index + 1]
    IN  IF v.Annotation # Nil /\ typed # Empty /\ ValidateValue(typed, v.Annotation) # Nil
        THEN Continue([w EXCEPT !.err = ValidateValue(typed, v.Annotation)])
        ELSE IF value = Empty /\ ~optional
        THEN Continue([w EXCEPT !.err = Errorf(MsgValueRequiredNotOptional)])
        ELSE IF stored.index >= Len(stored.result.MissingInEnv) THEN advanceState(stored)
        ELSE IF next.Value # Empty
        THEN Continue([stored EXCEPT !.textInput = TextInputSetValue(@, next.Value)])
        ELSE Continue(stored)

\* handleInvalidEnter
handleInvalidEnter(w) ==
    IF w.index >= Len(w.result.InvalidValues) THEN advanceState(w)
    ELSE
    LET valErr == w.result.InvalidValues[w.index + 1]
        value == w.textInput.value
        distVar == GetVariable(w.distFile, valErr.Variable)
        stored == [w EXCEPT !.resolutions =
                                Append(@, Resolution([ZeroVariable EXCEPT !.Name = valErr.Variable],
                                                     ActionAdd, value, Nil)),
                            !.err = Nil,
                            !.index = @ + 1,
                            !.textInput = TextInputReset(@)]
    IN  IF distVar # Nil /\ distVar.Annotation # Nil /\ ValidateValue(value, distVar.Annotation) # Nil
        THEN Continue([w EXCEPT !.err = ValidateValue(value, distVar.Annotation)])
        ELSE IF value = Empty THEN Continue([w EXCEPT !.err = Errorf(MsgSyncValueRequired)])
        ELSE IF stored.index >= Len(stored.result.InvalidValues) THEN advanceState(stored)
        ELSE Continue(stored)

\* handleExtraEnter
handleExtraEnter(w) ==
    IF w.index >= Len(w.result.ExtraInEnv) THEN advanceState(w)
    ELSE
    LET v == w.result.ExtraInEnv[w.index + 1]
        resolved(action) == [w EXCEPT !.resolutions = Append(@, Resolution(v, action, Empty, Nil)),
                                      !.index = @ + 1,
                                      !.menuChoice = 0]
        after(n) == IF n.index >= Len(n.result.ExtraInEnv) THEN advanceState(n) ELSE Continue(n)
    IN  IF w.menuChoice = 0 THEN after(resolved(ActionSkip))
        ELSE IF w.menuChoice = 1 THEN after(resolved(ActionRemove))
        ELSE IF w.menuChoice = 2
        THEN Continue([w EXCEPT !.state = SyncStateAddToDist,
                                !.addToDistStep = StepType,
                                !.addToDistVar = v,
                                !.inferredType = inferType(v.Value),
                                !.selectedType = typeToIndex(inferType(v.Value)),
                                !.promptText = Empty,
                                !.isOptional = FALSE,
                                !.isSecret = FALSE,
                                !.textInput = TextInputSetValue(TextInputReset(@), MsgEnter \o v.Name)])
        ELSE Continue(w)

\* handleAddToDistEnter and handleAddToDistSkip: the resolution is appended
\* and the wizard is back at the extra variables
AddToDistResolved(w, annotation) ==
    LET n == [w EXCEPT !.resolutions =
                           Append(@, Resolution(w.addToDistVar, ActionAddToDist, Empty, annotation)),
                       !.state = SyncStateExtra,
                       !.index = @ + 1,
                       !.menuChoice = 0]
    IN  IF n.index >= Len(n.result.ExtraInEnv) THEN advanceState(n) ELSE Continue(n)

\* handleAddToDistEnter
handleAddToDistEnter(w) ==
    IF w.addToDistStep = StepType THEN Continue([w EXCEPT !.addToDistStep = StepPrompt])
    ELSE IF w.addToDistStep = StepPrompt
    THEN Continue([w EXCEPT !.promptText = IF w.textInput.value = Empty
                                           THEN MsgEnter \o w.addToDistVar.Name
                                           ELSE w.textInput.value,
                            !.addToDistStep = StepOptional])
    ELSE IF w.addToDistStep = StepOptional THEN Continue([w EXCEPT !.addToDistStep = StepSecret])
    ELSE IF w.addToDistStep = StepSecret THEN Continue([w EXCEPT !.addToDistStep = StepConfirmAdd])
    ELSE IF w.addToDistStep = StepConfirmAdd
    THEN AddToDistResolved(w, [PromptText |-> w.promptText,
                               Type |-> indexToType(w.selectedType),
                               Constraints |-> <<>>,
                               IsOptional |-> w.isOptional,
                               IsSecret |-> w.isSecret])
    ELSE Continue(w)

\* handleAddToDistSkip
handleAddToDistSkip(w) ==
    AddToDistResolved(w, Nil)

\* handleEnter
handleEnter(w) ==
    IF w.state = SyncStateMissing THEN handleMissingEnter(w)
    ELSE IF w.state = SyncStateInvalid THEN handleInvalidEnter(w)
    ELSE IF w.state = SyncStateExtra THEN handleExtraEnter(w)
    ELSE IF w.state = SyncStateAddToDist THEN handleAddToDistEnter(w)
    ELSE IF w.state = SyncStateConfirm THEN Quit([w EXCEPT !.state = SyncStateDone])
    ELSE Continue(w)

\* skipCurrent without the move to the next phase after the last item
skipCurrentNoAdvance(w) ==
    IF w.state = SyncStateMissing /\ w.index < Len(w.result.MissingInEnv)
    THEN Continue([w EXCEPT !.resolutions =
                                Append(@, Resolution(w.result.MissingInEnv[w.index + 1],
                                                     ActionSkip, Empty, Nil)),
                            !.index = @ + 1,
                            !.textInput = TextInputReset(@)])
    ELSE IF w.state = SyncStateInvalid /\ w.index < Len(w.result.InvalidValues)
    THEN Continue([w EXCEPT !.index = @ + 1, !.textInput = TextInputReset(@)])
    ELSE IF w.state = SyncStateExtra /\ w.index < Len(w.result.ExtraInEnv)
    THEN Continue([w EXCEPT !.resolutions =
                                Append(@, Resolution(w.result.ExtraInEnv[w.index + 1],
                                                     ActionSkip, Empty, Nil)),
                            !.index = @ + 1])
    ELSE Continue(w)

\* skipCurrent
skipCurrent(w) ==
    LET after(n, items) == IF n.index >= Len(items) THEN advanceState(n) ELSE Continue(n)
    IN  IF w.state = SyncStateMissing /\ w.index < Len(w.result.MissingInEnv)
        THEN after([w EXCEPT !.resolutions =
                                 Append(@, Resolution(w.result.MissingInEnv[w.index + 1],
                                                      ActionSkip, Empty, Nil)),
                             !.index = @ + 1,
                             !.textInput = TextInputReset(@)],
                   w.result.MissingInEnv)
        ELSE IF w.state = SyncStateInvalid /\ w.index < Len(w.result.InvalidValues)
        THEN after([w EXCEPT !.index = @ + 1, !.textInput = TextInputReset(@)],
                   w.result.InvalidValues)
        ELSE IF w.state = SyncStateExtra /\ w.index < Len(w.result.ExtraInEnv)
        THEN after([w EXCEPT !.resolutions =
                                 Append(@, Resolution(w.result.ExtraInEnv[w.index + 1],
                                                      ActionSkip, Empty, Nil)),
                             !.index = @ + 1],
                   w.result.ExtraInEnv)
        ELSE Continue(w)

\* the wizard shows the text input: Update passes the message on to it
TextFieldShown(w) ==
    \/ w.state \in {SyncStateMissing, SyncStateInvalid}
    \/ w.state = SyncStateAddToDist /\ w.addToDistStep = StepPrompt

\* Update after the switch on the key
SyncUpdateInput(w, key) ==
    IF TextFieldShown(w)
    THEN Continue([w EXCEPT !.textInput = TextInputUpdate(@, key)])
    ELSE Continue(w)

\* Update on a key that only moves a menu or answers a question
SyncMenuKey(w, key) ==
    LET addType == w.state = SyncStateAddToDist /\ w.addToDistStep = StepType
    IN  IF key \in {"up", "k"}
        THEN [w EXCEPT !.menuChoice = IF w.state = SyncStateExtra /\ @ > 0 THEN @ - 1 ELSE @,
                       !.selectedType = IF addType /\ @ > 0 THEN @ - 1 ELSE @]
        ELSE IF key \in {"down", "j"}
        THEN [w EXCEPT !.menuChoice = IF w.state = SyncStateExtra /\ @ < 2 THEN @ + 1 ELSE @,
                       !.selectedType = IF addType /\ @ < 5 THEN @ + 1 ELSE @]
        ELSE w

\* Model.Update of the sync wizard on a tea.KeyMsg
SyncModelUpdate(w, key) ==
    LET answer == key \in {"y", "Y"}
    IN  IF key \in {"ctrl+c", "q"}
        THEN IF w.state = SyncStateAddToDist
             THEN Continue([w EXCEPT !.state = SyncStateExtra])
             ELSE Quit([w EXCEPT !.state = SyncStateAborted])
        ELSE IF key = "enter" THEN handleEnter(w)
        ELSE IF key \in {"tab", "s"}
        THEN IF w.state = SyncStateAddToDist THEN handleAddToDistSkip(w) ELSE skipCurrent(w)
        ELSE IF /\ key \in {"y", "Y", "n", "N"}
                /\ w.state = SyncStateAddToDist
                /\ w.addToDistStep = StepOptional
        THEN Continue([w EXCEPT !.isOptional = answer, !.addToDistStep = StepSecret])
        ELSE IF /\ key \in {"y", "Y", "n", "N"}
                /\ w.state = SyncStateAddToDist
                /\ w.addToDistStep = StepSecret
        THEN Continue([w EXCEPT !.isSecret = answer, !.addToDistStep = StepConfirmAdd])
        ELSE IF key \in {"1", "2", "3"} /\ w.state = SyncStateExtra
        THEN handleEnter([w EXCEPT !.menuChoice = CASE key = "1" -> 0 [] key = "2" -> 1 [] OTHER -> 2])
        ELSE SyncUpdateInput(SyncMenuKey(w, key), key)

\* Model.IsAborted of the sync wizard
SyncIsAborted(w) ==
    w.state = SyncStateAborted

\* applyResolutions: updates, the last value given for a name
ResolutionUpdates(resolutions) ==
    LET adds == SelectSeq(resolutions, LAMBDA r : r.Action = ActionAdd)
    IN  [name \in {adds[i].Variable.Name : i \in 1..Len(adds)} |->
            adds[CHOOSE i \in 1..Len(adds) :
                    /\ adds[i].Variable.Name = name
                    /\ \A j \in (i + 1)..Len(adds) : adds[j].Variable.Name # name].NewValue]

\* applyResolutions: removes
ResolutionRemoves(resolutions) ==
    {resolutions[i].Variable.Name :
        i \in {j \in 1..Len(resolutions) : resolutions[j].Action = ActionRemove}}

\* addToDistributable: the lines appended to the distributable
addToDistributable(resolutions) ==
    LET adds == SelectSeq(resolutions, LAMBDA r : r.Action = ActionAddToDist)
    IN  [i \in 1..Len(adds) |->
            adds[i].Variable.Name \o <<"=">> \o adds[i].Variable.Value
            \o (IF adds[i].Annotation # Nil
                THEN <<" ">> \o FormatAnnotation(adds[i].Annotation)
                ELSE Empty)]

\* the lines of the distributable and of the target the sync wizard is run for
SyncInputs ==
    {<<<<DistAInt, GenOptional>>, <<>>>>,
     <<<<DistAInt, InspectOptionalDefault>>, <<>>>>,
     <<<<DistAInt, DistBPattern>>, <<TgtAWord, TgtBz>>>>,
     <<<<DistAInt>>, <<TgtAWord, InspectExtra>>>>,
     <<<<>>, <<InspectExtra, TgtC>>>>,
     <<<<DistAInt, GenOptional>>, <<TgtAWord, InspectExtra>>>>}

\* the key messages the program delivers to the sync wizard, by their String()
SyncKeys ==
    {"ctrl+c", "enter", "tab", "up", "down"} \cup SyncRunes

\* what the sync specification leaves alone
SyncFrame ==
    UNCHANGED <<inspDist, inspTarget, inspResult, coreVars, tokVars, genVars, mergeVars, variableVars>>

\* runInspect found discrepancies and runInteractiveSync built the wizard
InitSync ==
    /\ pc = "sync"
    /\ \E input \in SyncInputs :
          /\ inspDist = parseLines(input[1]).envFile
          /\ inspTarget = parseLines(input[2]).envFile
    /\ inspResult = Inspect(inspDist, inspTarget)
    /\ HasDiscrepancies(inspResult)
    /\ syncModel = SyncModelNew(inspResult, inspDist, inspTarget)
    /\ inspFile = Nil /\ inspOut = Nil
    /\ CoreIdle /\ TokenIdle /\ GenIdle /\ MergeIdle /\ VariableIdle

\* the program delivers a key message to Update and keeps the Model returned
SyncKeyMsg ==
    /\ pc = "sync"
    /\ \E key \in SyncKeys :
          /\ syncModel' = SyncModelUpdate(syncModel, key).m
          /\ pc' = IF SyncModelUpdate(syncModel, key).quit THEN "syncquit" ELSE "sync"
    /\ UNCHANGED <<inspFile, inspOut>>
    /\ SyncFrame

\* runInteractiveSync after an aborted wizard
SyncAborted ==
    /\ pc = "syncquit"
    /\ SyncIsAborted(syncModel)
    /\ inspOut' = ReturnedNil
    /\ pc' = "returned"
    /\ UNCHANGED <<inspFile, syncModel>>
    /\ SyncFrame

\* runInteractiveSync after a completed wizard: applyResolutions rewrites the
\* target and appends to the distributable; opening either file succeeds or fails
SyncApply ==
    /\ pc = "syncquit"
    /\ ~SyncIsAborted(syncModel)
    /\ LET updates == ResolutionUpdates(syncModel.resolutions)
           removes == ResolutionRemoves(syncModel.resolutions)
           appended == addToDistributable(syncModel.resolutions)
           targets == IF DOMAIN updates # {} \/ removes # {}
                      THEN {FileWith(text) : text \in updateTargetFile(inspTarget, updates, removes)}
                      ELSE {Nil}
       IN  \/ /\ inspFile' \in {[target |-> t, dist |-> IF appended # <<>> THEN FileWith(appended) ELSE Nil] :
                                   t \in targets}
              /\ inspOut' = ReturnedNil
           \/ /\ DOMAIN updates # {} \/ removes # {}
              /\ inspFile' = [target |-> Nil, dist |-> Nil]
              /\ inspOut' = ReturnedError(MsgUpdateTargetFailed)
           \/ /\ appended # <<>>
              /\ inspFile' \in {[target |-> t, dist |-> Nil] : t \in targets}
              /\ inspOut' = ReturnedError(MsgUpdateDistFailed)
    /\ pc' = "returned"
    /\ UNCHANGED syncModel
    /\ SyncFrame

NextSync ==
    \/ SyncKeyMsg
    \/ SyncAborted
    \/ SyncApply

SpecSync ==
    InitSync /\ [][NextSync]_vars

\* the keys that are one printable character
PrintableKeys ==
    {key \in SyncKeys : key \in SyncRunes}

\* C27: while the sync wizard shows a text field (Missing, Invalid, or the
\* prompt step of AddToDist) a printable character key changes nothing but the
\* text input: the wizard is not aborted, the item is not skipped, and state,
\* index and resolutions stay as they are; so 'q' and 's' can be typed.
C27_PrintableKeysOnlyEdit ==
    (pc = "sync" /\ TextFieldShown(syncModel)) =>
        \A key \in PrintableKeys :
            /\ ~SyncModelUpdate(syncModel, key).quit
            /\ [SyncModelUpdate(syncModel, key).m EXCEPT !.textInput = syncModel.textInput]
               = syncModel

\* the place of a state in the order of the phases; AddToDist belongs to Extra
PhaseRank(state) ==
    IF state = SyncStateAddToDist THEN SyncStateExtra ELSE state

\* the list of the items of a phase
PhaseItems(w, state) ==
    CASE state = SyncStateMissing -> w.result.MissingInEnv
      [] state = SyncStateInvalid -> w.result.InvalidValues
      [] state \in {SyncStateExtra, SyncStateAddToDist} -> w.result.ExtraInEnv

\* the states with a list of items
ItemStates ==
    {SyncStateMissing, SyncStateInvalid, SyncStateExtra, SyncStateAddToDist}

\* what one key does to the phase of the wizard in state w
PhaseStepOn(w, key) ==
    \A n \in {SyncModelUpdate(w, key).m} :
        /\ n.state # SyncStateAborted => PhaseRank(n.state) >= PhaseRank(w.state)
        /\ n.state \in ItemStates => Len(PhaseItems(n, n.state)) > 0
        /\ (n.state = SyncStateAddToDist /\ w.state # SyncStateAddToDist) => w.state = SyncStateExtra
        /\ w.state = SyncStateAddToDist =>
              n.state \in {SyncStateAddToDist, SyncStateExtra, SyncStateConfirm}
        /\ (n.state = SyncStateDone /\ w.state # SyncStateDone) =>
              w.state = SyncStateConfirm /\ key = "enter"
        /\ (n.state = SyncStateAborted /\ w.state # SyncStateAborted) => key \in {"ctrl+c", "q"}
        /\ w.state \in {SyncStateDone, SyncStateAborted} => n.resolutions = w.resolutions

\* C28: the sync wizard goes through its phases in the order Missing, Invalid,
\* Extra, Confirm, Done and never back; it is never in a phase without items;
\* AddToDist is entered from Extra only and left for Extra or Confirm only;
\* Done is reached only by enter in Confirm and Aborted only by an abort key;
\* in Done and in Aborted no key changes the resolutions.
C28_PhasesInOrder ==
    syncModel # Nil =>
        /\ syncModel.state \in ItemStates => Len(PhaseItems(syncModel, syncModel.state)) > 0
        /\ \A key \in SyncKeys : PhaseStepOn(syncModel, key)

\* a wizard with missing, invalid and extra items that has ended Done after
\* an extra variable went through AddToDist
C28_Witness ==
    /\ syncModel # Nil
    /\ syncModel.state = SyncStateDone
    /\ syncModel.result.MissingInEnv # <<>>
    /\ syncModel.result.InvalidValues # <<>>
    /\ \E i \in 1..Len(syncModel.resolutions) :
          /\ syncModel.resolutions[i].Action = ActionAddToDist
          /\ syncModel.resolutions[i].Annotation # Nil

\* C29: whenever the sync wizard is in Missing, Invalid, Extra or AddToDist its
\* index is an index of the list of that state: at least 0 and below the
\* number of missing, invalid or extra items.
C29_IndexInBounds ==
    (syncModel # Nil /\ syncModel.state \in ItemStates) =>
        /\ syncModel.index >= 0
        /\ syncModel.index < Len(PhaseItems(syncModel, syncModel.state))

\* the wizard is at the second of two invalid values after a submission for
\* the first one
C29_Witness ==
    /\ syncModel # Nil
    /\ syncModel.state = SyncStateInvalid
    /\ syncModel.index = 1
    /\ Len(syncModel.result.InvalidValues) = 2
    /\ Len(syncModel.resolutions) = 1
    /\ syncModel.resolutions[1].Action = ActionAdd

\* the variable of the distributable has no variable of its name in the target
IsMissing(distVar) ==
    GetVariable(inspTarget, distVar.Name) = Nil

\* the target's value for the variable is rejected by the variable's annotation
IsInvalid(distVar) ==
    /\ ~IsMissing(distVar)
    /\ distVar.Annotation # Nil
    /\ ValidateValue(GetVariable(inspTarget, distVar.Name).Value, distVar.Annotation) # Nil

\* C30: Inspect partitions the variables of the distributable: MissingInEnv is
\* the variables without a target variable, InvalidValues names the variables
\* whose target value is rejected, ValidCount counts the rest, so the three
\* sizes add up to the number of variables of the distributable; ExtraInEnv is
\* the target's variables whose name the distributable does not hold, in the
\* target's order, and shares no name with the other groups.
C30_InspectPartitions ==
    inspResult # Nil =>
        LET dv == inspDist.Variables
            invalid == SelectSeq(dv, IsInvalid)
            rest == SelectSeq(dv, LAMBDA v : ~IsMissing(v) /\ ~IsInvalid(v))
        IN  /\ inspResult.MissingInEnv = SelectSeq(dv, IsMissing)
            /\ Len(inspResult.InvalidValues) = Len(invalid)
            /\ \A k \in 1..Len(invalid) : inspResult.InvalidValues[k].Variable = invalid[k].Name
            /\ inspResult.ValidCount = Len(rest)
            /\ Len(inspResult.MissingInEnv) + Len(inspResult.InvalidValues)
               + inspResult.ValidCount = Len(dv)
            /\ inspResult.ExtraInEnv
               = SelectSeq(inspTarget.Variables, LAMBDA t : t.Name \notin NamesOf(dv))
            /\ NamesOf(inspResult.ExtraInEnv) \cap NamesOf(dv) = {}

\* an inspection that found a missing variable, an invalid value and an extra variable
C30_Witness ==
    /\ inspResult # Nil
    /\ inspResult.MissingInEnv # <<>>
    /\ inspResult.InvalidValues # <<>>
    /\ inspResult.ExtraInEnv # <<>>

\* every operation of the model
Init ==
    InitParse \/ InitAnn \/ InitValue \/ InitDoc \/ InitToken \/ InitGenerate \/ InitWizard
    \/ InitInspect \/ InitMerge \/ InitVariable \/ InitSync

Next ==
    NextParse \/ NextParseConfig \/ NextAnn \/ NextValue \/ NextDoc \/ NextToken \/ NextGenerate \/ NextWizard
    \/ NextInspect \/ NextMerge \/ NextVariable \/ NextSync

Spec ==
    Init /\ [][Next]_vars
====
